---------------------------- MODULE Spec2Model ----------------------------
(***************************************************************************)
(* A model of the Eclipse grid reader (EGrid) and summary reader (ESmry)   *)
(* of opm-common, src/opm/io/eclipse/EGrid.cpp.                            *)
(*                                                                         *)
(* Nine specifications share the variables:                                *)
(*   SpecGrid  - one EGrid object: construction (GRIDHEAD dimensions and   *)
(*               the active index build) and the index mapping methods;   *)
(*   SpecNnc   - the EGrid constructor, load_nnc_data and get_nnc_ijk;     *)
(*   SpecLgr   - the record scan of the EGrid constructor (LGR sections);  *)
(*   SpecGeom  - getCellCorners, getXYZ_layer and get_zcorn_from_disk;     *)
(*   SpecKey   - ESmry::makeKeyString applied to keywords, names and       *)
(*               numbers drawn from bounded sets;                          *)
(*   SpecSmry  - one ESmry object: construction over a restart chain of    *)
(*               SMSPEC files, the per-key and the bulk vector loaders;    *)
(*   SpecScan  - the ESmry constructor over record streams and             *)
(*               make_esmry_file;                                          *)
(*   SpecChain - the RESTART chain the ESmry constructor follows;          *)
(*   SpecSel   - the choice between unified and numbered result files.     *)
(* Vectors of the code are 0-based; sequences here are 1-based, and At     *)
(* reads element n (0-based) of a sequence.                                *)
(***************************************************************************)
EXTENDS Integers, Sequences, FiniteSets, TLC

VARIABLES
    \* ---- EGrid ----
    egridFile,      \* the EGRID file: [nijk, hasActnum, actnum] of the requested grid
    gpc,            \* "new" (before the constructor ran) or "ready"
    nijk,           \* EGrid::nijk
    act_index,      \* EGrid::act_index  (global -> active or -1)
    glob_index,     \* EGrid::glob_index (active -> global)
    nactive,        \* EGrid::nactive
    glast,          \* the last method call on the EGrid: [op, args, read, ret]
    nncFile,        \* NNC1, NNC2 of the EGRID file and the INIT file beside it
    nnc1_array,     \* EGrid::nnc1_array
    nnc2_array,     \* EGrid::nnc2_array
    transnnc_array, \* EGrid::transnnc_array
    m_nncs_loaded,  \* EGrid::m_nncs_loaded
    \* ---- ESmry ----
    nI, nJ,         \* ESmry::nI, ESmry::nJ (grid dimensions from DIMENS)
    klast,          \* the last makeKeyString call: [args, ret]
    smryDisk,       \* the runs on disk: smryDisk[1] is the run that is opened,
                    \* smryDisk[r + 1] the run that RESTART of run r names
    loadBaseRunData,        \* the constructor's argument
    spc,                    \* "new", "ready", "failed" (constructor threw) or "crashed"
    keywordListSpecFile,    \* ESmry::keywordListSpecFile
    nParamsSpecFile,        \* ESmry::nParamsSpecFile
    arrayPos,               \* ESmry::arrayPos (per spec file: key ordinal -> column)
    keyword,                \* ESmry::keyword (keyword_index[keyword[o]] = o)
    vectorData,             \* ESmry::vectorData
    vectorLoaded,           \* ESmry::vectorLoaded
    timeStepList,           \* ESmry::timeStepList  <<specInd, dataFileIndex, position>>
    miniStepList,           \* ESmry::miniStepList
    seqIndex,               \* ESmry::seqIndex
    dataFileList,           \* ESmry::dataFileList
    restart_info,           \* ESmry::restart_info <<root name, restart step>>
    mini_steps,             \* ESmry::mini_steps
    esmryFile,              \* the .ESMRY file beside the SMSPEC: [exists, records]
    slast,                  \* the last method call on the ESmry: [op, names, ok]
    \* ---- ESmry::ESmry, the RESTART chain ----
    smspecDir,      \* the SMSPEC files on disk: root name -> root name in RESTART
    cpc,            \* "new", "chain" (in the while loop), "scan" (past it), "failed"
    smspecList,     \* the root names of the files opened so far (smspecList)
    rstRootName,    \* rstRootN: the root name the loop opens next, "" for none
    \* ---- ESmry::ESmry, the result files of one run ----
    resultDir,          \* the directory of the run: file name -> last write time
    rpc,                \* "new", "selected" or "failed" (the constructor threw)
    resultsFileList,    \* resultsFileList of the run
    \* ---- EGrid::EGrid, the scan of the records ----
    egridRecords,   \* the records of the EGRID file, in file order (array_name and
                    \* what the constructor reads of each record)
    m_grid_name,    \* EGrid::m_grid_name, the constructor's argument grid_name
    lgr_names,      \* EGrid::lgr_names
    array_index,    \* coord_array_index, zcorn_array_index, actnum_array_index,
                    \* nnc1_array_index, nnc2_array_index, coordsys_array_index and
                    \* hostnum_index, by the name of the record
    host_nijk,      \* EGrid::host_nijk
    \* ---- EGrid, the grid geometry ----
    geomFile,       \* the EGRID file: [nijk, numres, coordsys, radial, formatted]
    coord_array,    \* EGrid::coord_array (empty until loaded)
    zcorn_array,    \* EGrid::zcorn_array (empty until loaded)
    m_radial,       \* EGrid::m_radial
    res             \* EGrid::res (layer -> reservoir)

nncVars == <<nncFile, nnc1_array, nnc2_array, transnnc_array, m_nncs_loaded>>
gridVars == <<egridFile, gpc, nijk, act_index, glob_index, nactive, glast, nncVars>>
keyVars == <<nI, nJ, klast>>
smryVars ==
    <<smryDisk, loadBaseRunData, spc, keywordListSpecFile, nParamsSpecFile, arrayPos,
      keyword, vectorData, vectorLoaded, timeStepList, miniStepList, seqIndex,
      dataFileList, restart_info, mini_steps, esmryFile, slast>>
chainVars == <<smspecDir, cpc, smspecList, rstRootName>>
selVars == <<resultDir, rpc, resultsFileList>>
lgrVars == <<egridRecords, m_grid_name, lgr_names, array_index, host_nijk>>
geomVars == <<geomFile, coord_array, zcorn_array, m_radial, res>>
extVars == <<chainVars, selVars, lgrVars, geomVars>>
chainRest == <<gridVars, keyVars, smryVars, selVars, lgrVars, geomVars>>
selRest == <<gridVars, keyVars, smryVars, chainVars, lgrVars, geomVars>>
vars == <<gridVars, keyVars, smryVars, extVars>>

At(s, n) == s[n + 1]

\* An EGRID file without NNC1 and NNC2 and without an INIT file beside it.
NoInit == [exists |-> FALSE, nijk |-> <<0, 0, 0>>, nactive |-> 0, trannnc |-> <<>>]
NncIdle ==
    /\ nncFile = [hasNnc |-> FALSE, nnc1 |-> <<>>, nnc2 |-> <<>>, init |-> NoInit]
    /\ nnc1_array = <<>>
    /\ nnc2_array = <<>>
    /\ transnnc_array = <<>>
    /\ m_nncs_loaded = FALSE

\* No ESmry object built and no run on disk.
SmryNew ==
    /\ smryDisk = <<>>
    /\ spc = "new"
    /\ keywordListSpecFile = <<>>
    /\ nParamsSpecFile = <<>>
    /\ arrayPos = <<>>
    /\ keyword = <<>>
    /\ vectorData = <<>>
    /\ vectorLoaded = <<>>
    /\ timeStepList = <<>>
    /\ miniStepList = <<>>
    /\ seqIndex = <<>>
    /\ dataFileList = <<>>
    /\ restart_info = <<"", 0>>
    /\ mini_steps = <<>>
    /\ esmryFile = [exists |-> FALSE, records |-> <<>>]
    /\ slast = [op |-> "none", names |-> <<>>, ok |-> TRUE]

\* No ESmry object in use.
SmryIdle ==
    /\ loadBaseRunData = FALSE
    /\ SmryNew

\* No RESTART chain being followed.
ChainIdle ==
    /\ smspecDir = <<>>
    /\ cpc = "new"
    /\ smspecList = <<>>
    /\ rstRootName = ""

\* No result file selection under way.
SelIdle ==
    /\ resultDir = <<>>
    /\ rpc = "new"
    /\ resultsFileList = <<>>

\* No scan of EGRID records under way.
LgrIdle ==
    /\ egridRecords = <<>>
    /\ m_grid_name = "global"
    /\ lgr_names = <<>>
    /\ array_index = <<>>
    /\ host_nijk = <<0, 0, 0>>

\* No grid geometry in use.
GeomIdle ==
    /\ geomFile = <<>>
    /\ coord_array = <<>>
    /\ zcorn_array = <<>>
    /\ m_radial = FALSE
    /\ res = <<>>

ExtIdle ==
    /\ ChainIdle
    /\ SelIdle
    /\ LgrIdle
    /\ GeomIdle

-----------------------------------------------------------------------------
(* Bounds of the EGrid model *)

MaxDim == 3         \* nx, ny, nz each in 1..MaxDim
MaxCells == 6       \* nx*ny*nz <= MaxCells

ActnumValues == {0, 1}

\* A value read from memory the constructor never wrote.
IndeterminateInt == -1 .. (MaxCells + 1)

GridDims ==
    {d \in (1..MaxDim) \X (1..MaxDim) \X (1..MaxDim) : d[1] * d[2] * d[3] <= MaxCells}

EGridFiles ==
    UNION {
        {[nijk |-> d, hasActnum |-> FALSE, actnum |-> <<>>]}
        \cup {[nijk |-> d, hasActnum |-> TRUE, actnum |-> a] :
                a \in [1..(d[1] * d[2] * d[3]) -> ActnumValues]}
        : d \in GridDims }

-----------------------------------------------------------------------------
(* EGrid::EGrid, active index build (lines 161-179) *)

RECURSIVE ScanActnum_global_ordinal(_, _)
ScanActnum_global_ordinal(actnum, n) ==
    IF n = 0 THEN [act_index |-> <<>>, glob_index |-> <<>>, nactive |-> 0]
    ELSE LET p == ScanActnum_global_ordinal(actnum, n - 1) IN
         IF At(actnum, n - 1) > 0
         THEN [act_index  |-> Append(p.act_index, n - 1),
               glob_index |-> Append(p.glob_index, n - 1),
               nactive    |-> p.nactive + 1]
         ELSE [p EXCEPT !.act_index = Append(@, -1)]

\* The ACTNUM scan after its first n iterations.
RECURSIVE ScanActnum(_, _)
ScanActnum(actnum, n) ==
    IF n = 0 THEN [act_index |-> <<>>, glob_index |-> <<>>, nactive |-> 0]
    ELSE LET p == ScanActnum(actnum, n - 1) IN
         IF At(actnum, n - 1) > 0
         THEN [act_index  |-> Append(p.act_index, p.nactive),
               glob_index |-> Append(p.glob_index, n - 1),
               nactive    |-> p.nactive + 1]
         ELSE [p EXCEPT !.act_index = Append(@, -1)]

\* std::iota(v.begin(), v.end(), 0) on a vector of nCells elements
Iota(nCells) == [n \in 1..nCells |-> n - 1]

\* The constructor. Without an ACTNUM record nothing assigns nactive: the
\* member keeps whatever the object's memory held.
EGridCtor ==
    /\ gpc = "new"
    /\ gpc' = "ready"
    /\ nijk' = egridFile.nijk
    /\ IF egridFile.hasActnum
       THEN LET s == ScanActnum(egridFile.actnum, Len(egridFile.actnum)) IN
            /\ act_index' = s.act_index
            /\ glob_index' = s.glob_index
            /\ nactive' = s.nactive
       ELSE LET nCells == egridFile.nijk[1] * egridFile.nijk[2] * egridFile.nijk[3] IN
            /\ act_index' = Iota(nCells)
            /\ glob_index' = Iota(nCells)
            /\ nactive' \in IndeterminateInt
    /\ nnc1_array' = <<>>
    /\ nnc2_array' = <<>>
    /\ transnnc_array' = <<>>
    /\ m_nncs_loaded' = FALSE
    /\ UNCHANGED <<extVars, egridFile, glast, nncFile, keyVars, smryVars>>

-----------------------------------------------------------------------------
(* EGrid index mapping (lines 284-341) *)

OutOfRangeMsg == "i, j or/and k out of range"

IntRet(v) == [ok |-> TRUE, val |-> v, err |-> ""]
IntErr(m) == [ok |-> FALSE, val |-> 0, err |-> m]
IjkRet(v) == [ok |-> TRUE, val |-> v, err |-> ""]
IjkErr(m) == [ok |-> FALSE, val |-> <<0, 0, 0>>, err |-> m]

ijkOutOfRange(i, j, k) ==
    i < 0 \/ i >= nijk[1] \/ j < 0 \/ j >= nijk[2] \/ k < 0 \/ k >= nijk[3]

global_index_wrong_stride(i, j, k) ==
    IF ijkOutOfRange(i, j, k)
    THEN IntErr(OutOfRangeMsg)
    ELSE IntRet(i + j * nijk[2] + k * nijk[1] * nijk[2])

global_index(i, j, k) ==
    IF ijkOutOfRange(i, j, k)
    THEN IntErr(OutOfRangeMsg)
    ELSE IntRet(i + j * nijk[1] + k * nijk[1] * nijk[2])

\* act_index[n]: the set of values the read can give; a read past the end of
\* the vector is undefined and can give anything.
ReadActIndex(n) ==
    IF n >= 0 /\ n < Len(act_index) THEN {At(act_index, n)} ELSE IndeterminateInt

active_index_off_by_one(i, j, k) ==
    LET n == i + j * nijk[1] + k * nijk[1] * nijk[2] IN
    IF i < 0 \/ i > nijk[1] \/ j < 0 \/ j >= nijk[2] \/ k < 0 \/ k >= nijk[3]
    THEN {[ret |-> IntErr(OutOfRangeMsg), read |-> -1]}
    ELSE {[ret |-> IntRet(v), read |-> n] : v \in ReadActIndex(n)}

\* The outcomes of active_index: the value returned and the index of
\* act_index it read (-1: no read).
active_index(i, j, k) ==
    LET n == i + j * nijk[1] + k * nijk[1] * nijk[2] IN
    IF ijkOutOfRange(i, j, k)
    THEN {[ret |-> IntErr(OutOfRangeMsg), read |-> -1]}
    ELSE {[ret |-> IntRet(v), read |-> n] : v \in ReadActIndex(n)}

ijk_of(glob) ==
    LET k == glob \div (nijk[1] * nijk[2])
        rest == glob % (nijk[1] * nijk[2])
    IN <<rest % nijk[1], rest \div nijk[1], k>>

ijk_from_global_index(globInd) ==
    IF globInd < 0 \/ globInd >= nijk[1] * nijk[2] * nijk[3]
    THEN IjkErr("global index out of range")
    ELSE IjkRet(ijk_of(globInd))

\* glob_index[actInd]; a read past the end of the vector is undefined.
ReadGlobIndex(a) ==
    IF a >= 0 /\ a < Len(glob_index) THEN {At(glob_index, a)} ELSE 0 .. (MaxCells + 1)

ijk_from_active_index(actInd) ==
    IF actInd < 0 \/ actInd >= nactive
    THEN {IjkErr("active index out of range")}
    ELSE {IjkRet(ijk_of(g)) : g \in ReadGlobIndex(actInd)}

IjkArgs == (-1 .. nijk[1]) \X (-1 .. nijk[2]) \X (-1 .. nijk[3])
IndexArgs == -1 .. (nijk[1] * nijk[2] * nijk[3])

CallGlobalIndex ==
    /\ gpc = "ready"
    /\ \E a \in IjkArgs :
          glast' = [op |-> "global_index", args |-> a, read |-> -1,
                    ret |-> global_index(a[1], a[2], a[3])]
    /\ UNCHANGED <<extVars, egridFile, gpc, nijk, act_index, glob_index, nactive, nncVars, keyVars, smryVars>>

CallActiveIndex ==
    /\ gpc = "ready"
    /\ \E a \in IjkArgs : \E r \in active_index(a[1], a[2], a[3]) :
          glast' = [op |-> "active_index", args |-> a, read |-> r.read, ret |-> r.ret]
    /\ UNCHANGED <<extVars, egridFile, gpc, nijk, act_index, glob_index, nactive, nncVars, keyVars, smryVars>>

CallIjkFromGlobalIndex ==
    /\ gpc = "ready"
    /\ \E g \in IndexArgs :
          glast' = [op |-> "ijk_from_global_index", args |-> <<g>>, read |-> -1,
                    ret |-> ijk_from_global_index(g)]
    /\ UNCHANGED <<extVars, egridFile, gpc, nijk, act_index, glob_index, nactive, nncVars, keyVars, smryVars>>

CallIjkFromActiveIndex ==
    /\ gpc = "ready"
    /\ \E a \in IndexArgs : \E r \in ijk_from_active_index(a) :
          glast' = [op |-> "ijk_from_active_index", args |-> <<a>>, read |-> -1,
                    ret |-> r]
    /\ UNCHANGED <<extVars, egridFile, gpc, nijk, act_index, glob_index, nactive, nncVars, keyVars, smryVars>>

InitGrid ==
    /\ egridFile \in EGridFiles
    /\ gpc = "new"
    /\ nijk = <<0, 0, 0>>
    /\ act_index = <<>>
    /\ glob_index = <<>>
    /\ nactive = 0
    /\ glast = [op |-> "none", args |-> <<>>, read |-> -1, ret |-> IntRet(0)]
    /\ NncIdle
    /\ nI = 0 /\ nJ = 0
    /\ klast = [args |-> <<>>, ret |-> [ok |-> TRUE, key |-> <<>>]]
    /\ SmryIdle
    /\ ExtIdle

NextGrid ==
    \/ EGridCtor
    \/ CallGlobalIndex
    \/ CallActiveIndex
    \/ CallIjkFromGlobalIndex
    \/ CallIjkFromActiveIndex

SpecGrid == InitGrid /\ [][NextGrid]_vars

GridIdle ==
    /\ egridFile = [nijk |-> <<1, 1, 1>>, hasActnum |-> FALSE, actnum |-> <<>>]
    /\ gpc = "new"
    /\ nijk = <<0, 0, 0>>
    /\ act_index = <<>>
    /\ glob_index = <<>>
    /\ nactive = 0
    /\ glast = [op |-> "none", args |-> <<>>, read |-> -1, ret |-> IntRet(0)]
    /\ NncIdle

-----------------------------------------------------------------------------
(* EGrid::load_nnc_data and EGrid::get_nnc_ijk (lines 213-282)             *)

\* load_nnc_data: what it leaves in the members, and whether it threw.
load_nnc_data ==
    LET init == nncFile.init
        kept == [ok |-> TRUE, err |-> "", nnc1 |-> nnc1_array, nnc2 |-> nnc2_array,
                 trans |-> transnnc_array, loaded |-> m_nncs_loaded]
        read == [kept EXCEPT !.nnc1 = nncFile.nnc1, !.nnc2 = nncFile.nnc2]
    IN IF ~nncFile.hasNnc THEN kept
       ELSE IF init.exists /\ Len(nncFile.nnc1) > 0
       THEN IF init.nijk # nijk
            THEN [read EXCEPT !.ok = FALSE,
                     !.err = "Dimensions of Egrid differ from dimensions found in init file"]
            ELSE IF init.nactive # nactive
            THEN [read EXCEPT !.ok = FALSE,
                     !.err = "Number of active cells are different in Egrid and Init file"]
            ELSE IF Len(init.trannnc) # Len(nncFile.nnc1)
            THEN [read EXCEPT !.ok = FALSE,
                     !.err = "inconsistent size of array TRANNNC in init file"]
            ELSE [read EXCEPT !.trans = init.trannnc, !.loaded = TRUE]
       ELSE [read EXCEPT !.loaded = TRUE]

\* One NNCentry (lines 222-229)
NNCentry(nnc1, nnc2, trans, n) ==
    LET ijk1 == ijk_from_global_index(nnc1[n] - 1).val
        ijk2 == ijk_from_global_index(nnc2[n] - 1).val
    IN <<ijk1[1], ijk1[2], ijk1[3], ijk2[1], ijk2[2], ijk2[3],
         IF Len(trans) > 0 THEN trans[n] ELSE -1>>

\* The loop of get_nnc_ijk over arrays nnc1, nnc2, trans: it throws at the
\* first cell number that ijk_from_global_index rejects.
get_nnc_ijk(nnc1, nnc2, trans) ==
    LET bad == {n \in 1..Len(nnc1) : ~ijk_from_global_index(nnc1[n] - 1).ok
                                     \/ ~ijk_from_global_index(nnc2[n] - 1).ok}
    IN IF bad # {} THEN [ok |-> FALSE, val |-> <<>>, err |-> "global index out of range"]
       ELSE [ok |-> TRUE, val |-> [n \in 1..Len(nnc1) |-> NNCentry(nnc1, nnc2, trans, n)],
             err |-> ""]

CallGetNncIjk ==
    /\ gpc = "ready"
    /\ LET l == IF m_nncs_loaded
                THEN [ok |-> TRUE, err |-> "", nnc1 |-> nnc1_array, nnc2 |-> nnc2_array,
                      trans |-> transnnc_array, loaded |-> TRUE]
                ELSE load_nnc_data
       IN /\ nnc1_array' = l.nnc1
          /\ nnc2_array' = l.nnc2
          /\ transnnc_array' = l.trans
          /\ m_nncs_loaded' = l.loaded
          /\ glast' = [op |-> "get_nnc_ijk", args |-> <<>>, read |-> -1,
                       ret |-> IF l.ok THEN get_nnc_ijk(l.nnc1, l.nnc2, l.trans)
                                       ELSE [ok |-> FALSE, val |-> <<>>, err |-> l.err]]
    /\ UNCHANGED <<extVars, egridFile, gpc, nijk, act_index, glob_index, nactive, nncFile, keyVars,
                   smryVars>>

\* SpecNnc: grids of a few cells with NNC1 and NNC2 of up to MaxNnc
\* connections between cells of the grid, lower cell number first, and an
\* INIT file that is missing, agrees with the grid, or differs from it in
\* its dimensions, its number of active cells or the length of TRANNNC.
MaxNnc == 2

NncDims == {<<2, 1, 2>>, <<1, 2, 1>>}
NncGrids == {f \in EGridFiles : f.nijk \in NncDims}

NncPairs(nCells) == {c \in (1..nCells) \X (1..nCells) : c[1] < c[2]}
NncLists(nCells) == UNION {[1..n -> NncPairs(nCells)] : n \in 0..MaxNnc}

ActiveCount(f) ==
    IF f.hasActnum THEN Cardinality({n \in 1..Len(f.actnum) : f.actnum[n] > 0})
    ELSE f.nijk[1] * f.nijk[2] * f.nijk[3]

Trannnc(n) == [x \in 1..n |-> 10 * x]

InitFiles(f, n) ==
    {NoInit,
     [exists |-> TRUE, nijk |-> f.nijk, nactive |-> ActiveCount(f), trannnc |-> Trannnc(n)],
     [exists |-> TRUE, nijk |-> <<f.nijk[1] + 1, f.nijk[2], f.nijk[3]>>,
      nactive |-> ActiveCount(f), trannnc |-> Trannnc(n)],
     [exists |-> TRUE, nijk |-> f.nijk, nactive |-> ActiveCount(f) + 1, trannnc |-> Trannnc(n)],
     [exists |-> TRUE, nijk |-> f.nijk, nactive |-> ActiveCount(f), trannnc |-> Trannnc(n + 1)]}

NncFiles(f) ==
    {[hasNnc |-> FALSE, nnc1 |-> <<>>, nnc2 |-> <<>>, init |-> i] : i \in InitFiles(f, 0)}
    \cup UNION {{[hasNnc |-> TRUE,
                  nnc1 |-> [n \in 1..Len(l) |-> l[n][1]],
                  nnc2 |-> [n \in 1..Len(l) |-> l[n][2]],
                  init |-> i] : i \in InitFiles(f, Len(l))}
                : l \in NncLists(f.nijk[1] * f.nijk[2] * f.nijk[3])}

InitNnc ==
    /\ egridFile \in NncGrids
    /\ nncFile \in NncFiles(egridFile)
    /\ gpc = "new"
    /\ nijk = <<0, 0, 0>>
    /\ act_index = <<>>
    /\ glob_index = <<>>
    /\ nactive = 0
    /\ glast = [op |-> "none", args |-> <<>>, read |-> -1, ret |-> IntRet(0)]
    /\ nnc1_array = <<>>
    /\ nnc2_array = <<>>
    /\ transnnc_array = <<>>
    /\ m_nncs_loaded = FALSE
    /\ nI = 0 /\ nJ = 0
    /\ klast = [args |-> <<>>, ret |-> [ok |-> TRUE, key |-> <<>>]]
    /\ SmryIdle
    /\ ExtIdle

NextNnc ==
    \/ EGridCtor
    \/ CallGetNncIjk

SpecNnc == InitNnc /\ [][NextNnc]_vars

\* C18: get_nnc_ijk returns one entry per element of NNC1, in order, with
\* the coordinates ijk_from_global_index(nnc1[n]-1) and
\* ijk_from_global_index(nnc2[n]-1), and with TRANNNC[n] when the INIT file
\* beside the EGRID file supplied a TRANNNC that fits the grid, -1 when there
\* is no INIT file.
Cex_C18_NncEntries ==
    (/\ gpc = "ready" /\ glast.op = "get_nnc_ijk"
     /\ nncFile.init \in {NoInit,
                          [exists |-> TRUE, nijk |-> egridFile.nijk,
                           nactive |-> ActiveCount(egridFile),
                           trannnc |-> Trannnc(Len(nncFile.nnc1))]}) =>
        /\ glast.ret.ok
        /\ Len(glast.ret.val) = Len(nncFile.nnc1)
        /\ \A n \in 1..Len(nncFile.nnc1) :
              LET e == glast.ret.val[n]
              IN /\ <<e[1], e[2], e[3]>> = ijk_of(nncFile.nnc1[n] - 1)
                 /\ <<e[4], e[5], e[6]>> = ijk_of(nncFile.nnc2[n] - 1)
                 /\ e[7] = IF nncFile.init.exists THEN nncFile.init.trannnc[n] ELSE -1

-----------------------------------------------------------------------------
(* Claims about EGrid, checked under SpecGrid *)

nCellsOf(d) == d[1] * d[2] * d[3]
InGrid(a) == a[1] \in 0..(nijk[1] - 1) /\ a[2] \in 0..(nijk[2] - 1) /\ a[3] \in 0..(nijk[3] - 1)
ActiveCells == {g \in 0..(Len(egridFile.actnum) - 1) : At(egridFile.actnum, g) > 0}

\* C5: for every g in [0, nx*ny*nz), global_index of the (i,j,k) that
\* ijk_from_global_index(g) returns is g, and for every in-range (i,j,k),
\* ijk_from_global_index(global_index(i,j,k)) is (i,j,k).
Thm_C5_GlobalRoundTrip ==
    gpc = "ready" =>
        /\ (glast.op = "ijk_from_global_index" /\ glast.args[1] \in 0..(nCellsOf(nijk) - 1))
              => /\ glast.ret.ok
                 /\ global_index(glast.ret.val[1], glast.ret.val[2], glast.ret.val[3])
                       = IntRet(glast.args[1])
        /\ (glast.op = "global_index" /\ InGrid(glast.args))
              => /\ glast.ret.ok
                 /\ ijk_from_global_index(glast.ret.val) = IjkRet(glast.args)

Wit_C5_GlobalRoundTrip ==
    /\ gpc = "ready"
    /\ nijk = <<1, 2, 3>>
    /\ glast.op = "ijk_from_global_index"
    /\ glast.args = <<5>>
    /\ glast.ret = IjkRet(<<0, 1, 2>>)

\* C6: after construction nactive equals the length of glob_index; with an
\* ACTNUM record both equal the number of cells with actnum > 0, without one
\* both equal nx*ny*nz and the maps are the identity.
Cex_C6_NactiveIsGlobIndexSize ==
    gpc = "ready" =>
        /\ nactive = Len(glob_index)
        /\ egridFile.hasActnum => nactive = Cardinality(ActiveCells)
        /\ ~egridFile.hasActnum =>
              /\ nactive = nCellsOf(nijk)
              /\ act_index = [n \in 1..nCellsOf(nijk) |-> n - 1]
              /\ glob_index = [n \in 1..nCellsOf(nijk) |-> n - 1]

\* C7: active_index and ijk_from_active_index are mutual inverses over the
\* active cells, for grids with and without an ACTNUM record: every a in
\* [0, number of active cells) maps to a cell whose active index is a, and
\* every in-range cell with active index a >= 0 is what ijk_from_active_index(a)
\* returns.
Cex_C7_ActiveRoundTrip ==
    gpc = "ready" =>
        /\ (glast.op = "ijk_from_active_index" /\ glast.args[1] \in 0..(Len(glob_index) - 1))
              => /\ glast.ret.ok
                 /\ \A r \in active_index(glast.ret.val[1], glast.ret.val[2], glast.ret.val[3]) :
                        r.ret = IntRet(glast.args[1])
        /\ (glast.op = "active_index" /\ glast.ret.ok /\ glast.ret.val >= 0)
              => ijk_from_active_index(glast.ret.val) = {IjkRet(glast.args)}

\* C8: with an ACTNUM record, actnum[g] > 0 iff act_index[g] >= 0 (else
\* act_index[g] = -1), act_index numbers the active cells 0,1,2,... in
\* increasing global order, and glob_index lists the active global indices in
\* increasing order.
Thm_C8_ActnumScan ==
    (gpc = "ready" /\ egridFile.hasActnum) =>
        /\ Len(act_index) = Len(egridFile.actnum)
        /\ \A g \in 0..(Len(egridFile.actnum) - 1) :
              /\ (At(egridFile.actnum, g) > 0) <=> (At(act_index, g) >= 0)
              /\ At(egridFile.actnum, g) <= 0 => At(act_index, g) = -1
              /\ At(egridFile.actnum, g) > 0 =>
                    At(act_index, g) = Cardinality({h \in ActiveCells : h < g})
        /\ Len(glob_index) = Cardinality(ActiveCells)
        /\ \A a \in 0..(Len(glob_index) - 1) : At(glob_index, a) \in ActiveCells
        /\ \A a, b \in 0..(Len(glob_index) - 1) : a < b => At(glob_index, a) < At(glob_index, b)

Wit_C8_ActnumScan ==
    /\ gpc = "ready"
    /\ egridFile.hasActnum
    /\ egridFile.actnum = <<1, 0, 1, 1, 0, 1>>
    /\ glob_index = <<0, 2, 3, 5>>
    /\ act_index = <<0, -1, 1, 2, -1, 3>>
    /\ nactive = 4

\* C9: global_index(i,j,k) and active_index(i,j,k) fail with "i, j or/and k
\* out of range" exactly when i, j or k is outside [0,nx), [0,ny), [0,nz);
\* otherwise they return i + j*nx + k*nx*ny and act_index[i + j*nx + k*nx*ny];
\* neither reads act_index out of bounds nor changes any state.
C9_Step ==
    LET c == glast'
        n == c.args[1] + c.args[2] * nijk[1] + c.args[3] * nijk[1] * nijk[2]
    IN (gpc = "ready" /\ c.op \in {"global_index", "active_index"}) =>
          /\ c.ret.ok <=> InGrid(c.args)
          /\ ~c.ret.ok => c.ret.err = "i, j or/and k out of range" /\ c.read = -1
          /\ (c.ret.ok /\ c.op = "global_index") => c.ret.val = n /\ c.read = -1
          /\ (c.ret.ok /\ c.op = "active_index") =>
                /\ c.read = n
                /\ n >= 0 /\ n < Len(act_index)
                /\ c.ret.val = At(act_index, n)
          /\ UNCHANGED <<extVars, egridFile, gpc, nijk, act_index, glob_index, nactive, nncVars, keyVars, smryVars>>

Thm_C9_IndexBounds == [][C9_Step]_vars

Wit_C9_IndexBounds ==
    /\ gpc = "ready"
    /\ nijk = <<2, 1, 2>>
    /\ glast.op = "active_index"
    /\ glast.args = <<1, 0, 2>>
    /\ ~glast.ret.ok
    /\ glast.ret.err = "i, j or/and k out of range"

-----------------------------------------------------------------------------
(* String literals *)

KW_AAQX == <<"A", "A", "Q", "X">>
KW_BPR == <<"B", "P", "R">>
KW_COPR == <<"C", "O", "P", "R">>
KW_FOPT == <<"F", "O", "P", "T">>
KW_GGPR == <<"G", "G", "P", "R">>
KW_LBPR == <<"L", "B", "P", "R">>
KW_RPR == <<"R", "P", "R">>
KW_RXF == <<"R", "X", "F">>
KW_RORFR == <<"R", "O", "R", "F", "R">>
KW_SOFX == <<"S", "O", "F", "X">>
KW_STEPTYPE == <<"S", "T", "E", "P", "T", "Y", "P", "E">>
KW_TIME == <<"T", "I", "M", "E">>
KW_WOPR == <<"W", "O", "P", "R">>
KW_WOPRL == <<"W", "O", "P", "R", "L">>
KW_WOPRL__1 == <<"W", "O", "P", "R", "L", "_", "_", "1">>
KW_NOWG == <<":", "+", ":", "+", ":", "+", ":", "+">>     \* ":+:+:+:+"
WG_OP_1 == <<"O", "P", "_", "1">>
WG_OP_2 == <<"O", "P", "_", "2">>

-----------------------------------------------------------------------------
(* Strings.  A std::string is a sequence of one-character strings.         *)

\* The characters that occur, in increasing order of their char code.
CharOrder ==
    <<"+", ",", "-", ".", "0", "1", "2", "3", "4", "5", "6", "7", "8", "9", ":",
      "A", "B", "C", "D", "E", "F", "G", "H", "I", "J", "K", "L", "M", "N", "O",
      "P", "Q", "R", "S", "T", "U", "V", "W", "X", "Y", "Z", "_">>

CharCode(c) == CHOOSE n \in 1..Len(CharOrder) : CharOrder[n] = c

\* std::string::operator< (lexicographic, by char code)
StrLess(a, b) ==
    \E n \in 0..(IF Len(a) < Len(b) THEN Len(a) ELSE Len(b)) :
        /\ \A m \in 1..n : a[m] = b[m]
        /\ \/ n = Len(a) /\ n < Len(b)
           \/ n < Len(a) /\ n < Len(b) /\ CharCode(a[n + 1]) < CharCode(b[n + 1])

Digit(d) == <<"0", "1", "2", "3", "4", "5", "6", "7", "8", "9">>[d + 1]

RECURSIVE FmtNat(_)
FmtNat(n) == IF n < 10 THEN <<Digit(n)>> ELSE FmtNat(n \div 10) \o <<Digit(n % 10)>>

\* fmt::format("{}", n) for an int
FmtInt(n) == IF n < 0 THEN <<"-">> \o FmtNat(0 - n) ELSE FmtNat(n)

\* s.substr(pos, len): the characters from pos (0-based), at most len of them
Substr(s, pos, len) ==
    SubSeq(s, pos + 1, IF pos + len < Len(s) THEN pos + len ELSE Len(s))

EmptyStr == <<>>
Colon == <<":">>
Comma == <<",">>
no_wgname == KW_NOWG

-----------------------------------------------------------------------------
(* Key builder (lines 744-762, 1844-1969) *)

IsDigitChar(c) == c \in {"0", "1", "2", "3", "4", "5", "6", "7", "8", "9"}

is_well_completion_without_L(kwd) ==
    /\ Len(kwd) = 4
    /\ kwd[1] = "W"
    /\ kwd[2] \in {"O", "G", "W", "L", "V"}
    /\ kwd[3] \in {"P", "I", "G", "O", "L", "C", "F"}
    /\ kwd[4] \in {"R", "T"}

\* std::regex_match(keyword, "W[OGWLV][PIGOLCF][RT]L([0-9_]{2}[0-9])?")
is_well_completion(kwd) ==
    /\ Len(kwd) \in {5, 8}
    /\ kwd[1] = "W"
    /\ kwd[2] \in {"O", "G", "W", "L", "V"}
    /\ kwd[3] \in {"P", "I", "G", "O", "L", "C", "F"}
    /\ kwd[4] \in {"R", "T"}
    /\ kwd[5] = "L"
    /\ Len(kwd) = 8 =>
          /\ IsDigitChar(kwd[6]) \/ kwd[6] = "_"
          /\ IsDigitChar(kwd[7]) \/ kwd[7] = "_"
          /\ IsDigitChar(kwd[8])

\* SummaryNode::normalise_keyword: a padded well-completion keyword
\* (WOPRL__1) is cut to its five-character stem.
normalise_keyword(kwd) ==
    IF is_well_completion(kwd) /\ Len(kwd) = 8 THEN SubSeq(kwd, 1, 5) ELSE kwd

\* SummaryNode::miscellaneous_exception
miscellaneous_exception(kwd) == kwd \in {KW_STEPTYPE}

\* splitSummaryNumber: NUMS = R1 + 32768*(R2 + 10)
splitSummaryNumber(num) == <<num % 32768, (num \div 32768) - 10>>

ESmry_ijk_zero_based_jk(glob) ==
    LET g0 == glob - 1
        g1 == g0 \div nI
    IN <<1 + (g0 % nI), g1 % nJ, g1 \div nJ>>

ESmry_ijk_swapped_dims(glob) ==
    LET g0 == glob - 1
        g1 == g0 \div nJ
    IN <<1 + (g0 % nJ), 1 + (g1 % nI), 1 + (g1 \div nI)>>

\* ESmry::ijk_from_global_index (glob is positive at every call)
ESmry_ijk_from_global_index(glob) ==
    LET g0 == glob - 1
        g1 == g0 \div nI
    IN <<1 + (g0 % nI), 1 + (g1 % nJ), 1 + (g1 \div nJ)>>

FmtIjk(t) == FmtInt(t[1]) \o Comma \o FmtInt(t[2]) \o Comma \o FmtInt(t[3])

KeyOk(k) == [ok |-> TRUE, key |-> k]
KeyErr == [ok |-> FALSE, key |-> EmptyStr]
NoLgr == [has |-> FALSE, name |-> EmptyStr, ijk |-> <<0, 0, 0>>]

\* ESmry::makeKeyString; KeyErr is the std::invalid_argument of an L keyword
\* without LGR information.
makeKeyString(keywordArg, wgname, num, lgr) ==
    LET first == keywordArg[1] IN
    CASE first = "A" ->
            IF num <= 0 THEN KeyOk(EmptyStr)
            ELSE KeyOk(keywordArg \o Colon \o FmtInt(num))
      [] first = "B" ->
            IF num <= 0 THEN KeyOk(EmptyStr)
            ELSE KeyOk(keywordArg \o Colon \o FmtIjk(ESmry_ijk_from_global_index(num)))
      [] first = "C" ->
            IF num <= 0 THEN KeyOk(EmptyStr)
            ELSE KeyOk(keywordArg \o Colon \o wgname \o Colon
                       \o FmtIjk(ESmry_ijk_from_global_index(num)))
      [] first = "G" ->
            IF wgname = no_wgname THEN KeyOk(EmptyStr)
            ELSE KeyOk(keywordArg \o Colon \o wgname)
      [] first = "L" ->
            IF ~lgr.has THEN KeyErr
            ELSE IF keywordArg[2] = "B"
                 THEN KeyOk(keywordArg \o Colon \o lgr.name \o Colon \o FmtIjk(lgr.ijk))
            ELSE IF keywordArg[2] = "C"
                 THEN KeyOk(keywordArg \o Colon \o lgr.name \o Colon \o wgname \o Colon
                            \o FmtIjk(lgr.ijk))
            ELSE IF keywordArg[2] = "W"
                 THEN KeyOk(keywordArg \o Colon \o lgr.name \o Colon \o wgname)
            ELSE KeyOk(keywordArg)
      [] first = "R" ->
            IF num <= 0 THEN KeyOk(EmptyStr)
            ELSE LET str34 == Substr(keywordArg, 2, 2)
                     str45 == Substr(keywordArg, 3, 2)
                     FR == <<"F", "R">>
                     FT == <<"F", "T">>
                 IN IF keywordArg = KW_RORFR
                    THEN KeyOk(keywordArg \o Colon \o FmtInt(num))
                    ELSE IF str34 = FR \/ str34 = FT \/ str45 = FR \/ str45 = FT
                    THEN LET r == splitSummaryNumber(num) IN
                         KeyOk(keywordArg \o Colon \o FmtInt(r[1]) \o <<"-">> \o FmtInt(r[2]))
                    ELSE KeyOk(keywordArg \o Colon \o FmtInt(num))
      [] first = "S" ->
            IF miscellaneous_exception(keywordArg) THEN KeyOk(keywordArg)
            ELSE IF wgname = no_wgname THEN KeyOk(EmptyStr)
            ELSE IF num <= 0 THEN KeyOk(EmptyStr)
            ELSE KeyOk(keywordArg \o Colon \o wgname \o Colon \o FmtInt(num))
      [] first = "W" ->
            IF wgname = no_wgname THEN KeyOk(EmptyStr)
            ELSE IF is_well_completion(keywordArg)
                 THEN KeyOk(keywordArg \o Colon \o wgname \o Colon \o FmtInt(num))
            ELSE KeyOk(keywordArg \o Colon \o wgname)
      [] OTHER -> KeyOk(keywordArg)

-----------------------------------------------------------------------------
(* The key builder on its own: SpecKey applies makeKeyString to keywords,   *)
(* names and numbers drawn from bounded sets, for an ESmry whose DIMENS     *)
(* gave nI and nJ.                                                          *)

MaxNum == 12        \* NUMS values 0..MaxNum, beside the listed large ones

KeyDims == {<<20, 10>>, <<2, 2>>, <<3, 2>>, <<1, 3>>}
KeyKeywords ==
    {KW_AAQX, KW_BPR, KW_COPR, KW_FOPT, KW_GGPR, KW_LBPR, KW_RPR, KW_RXF, KW_RORFR,
     KW_SOFX, KW_STEPTYPE, KW_TIME, KW_WOPR, KW_WOPRL, KW_WOPRL__1}
KeyWgnames == {KW_NOWG, WG_OP_1}
KeyNums == (0 .. MaxNum) \cup {-1, 12675, 425986}

InitKey ==
    /\ GridIdle
    /\ \E d \in KeyDims : nI = d[1] /\ nJ = d[2]
    /\ klast = [args |-> <<>>, ret |-> KeyOk(EmptyStr)]
    /\ SmryIdle
    /\ ExtIdle

\* makeKeyString as the constructor calls it for a file without LGRS records:
\* on the normalised keyword, with no LGR information.
CallMakeKeyString ==
    /\ \E kw \in KeyKeywords, wg \in KeyWgnames, num \in KeyNums :
          klast' = [args |-> <<kw, wg, num>>,
                    ret |-> makeKeyString(normalise_keyword(kw), wg, num, NoLgr)]
    /\ UNCHANGED <<extVars, gridVars, nI, nJ, smryVars>>

NextKey == CallMakeKeyString

SpecKey == InitKey /\ [][NextKey]_vars

-----------------------------------------------------------------------------
(* Claims about the key builder, checked under SpecKey *)

\* C10: makeKeyString for keyword "BPR" with num = 12675 and summary grid
\* dimensions nx = 20, ny = 10 returns "BPR:15,3,63".
Cex_C10_BprKey ==
    (klast.args # <<>> /\ klast.args[1] = KW_BPR /\ klast.args[3] = 12675
        /\ nI = 20 /\ nJ = 10)
    => klast.ret = KeyOk(<<"B", "P", "R", ":", "1", "5", ",", "3", ",", "6", "3">>)

\* C10 as amended: that call returns "BPR:15,4,64", the 1-based (i,j,k) of
\* cell number 12675 on a grid with nx = 20, ny = 10.
Thm_C10_BprKey ==
    (klast.args # <<>> /\ klast.args[1] = KW_BPR /\ klast.args[3] = 12675
        /\ nI = 20 /\ nJ = 10)
    => klast.ret = KeyOk(<<"B", "P", "R", ":", "1", "5", ",", "4", ",", "6", "4">>)

Wit_C10_BprKey ==
    /\ nI = 20 /\ nJ = 10
    /\ klast.args = <<KW_BPR, KW_NOWG, 12675>>
    /\ klast.ret.ok
    /\ Len(klast.ret.key) = 11

\* The string of a call's result.
Str3(i, j, k) == FmtInt(i) \o <<",">> \o FmtInt(j) \o <<",">> \o FmtInt(k)

\* C11: for a B or C keyword and num = i + (j-1)*nI + (k-1)*nI*nJ with
\* 1 <= i <= nI, 1 <= j <= nJ, k >= 1, makeKeyString returns "KEYWORD:i,j,k"
\* (B) or "KEYWORD:WGNAME:i,j,k" (C); for num <= 0 it returns the empty key.
Thm_C11_BlockKeyUnpack ==
    (klast.args # <<>> /\ klast.args[1] \in {KW_BPR, KW_COPR}) =>
        LET kw == klast.args[1]
            wg == klast.args[2]
            num == klast.args[3]
            prefix == IF kw = KW_BPR THEN kw \o <<":">> ELSE kw \o <<":">> \o wg \o <<":">>
        IN /\ num <= 0 => klast.ret = KeyOk(<<>>)
           /\ \A i \in 1..nI, j \in 1..nJ, k \in 1..((num \div (nI * nJ)) + 1) :
                 num = i + (j - 1) * nI + (k - 1) * nI * nJ
                    => klast.ret = KeyOk(prefix \o Str3(i, j, k))
           /\ num > 0 => \E i \in 1..nI, j \in 1..nJ, k \in 1..((num \div (nI * nJ)) + 1) :
                 num = i + (j - 1) * nI + (k - 1) * nI * nJ

Wit_C11_BlockKeyUnpack ==
    /\ nI = 3 /\ nJ = 2
    /\ klast.args = <<KW_COPR, WG_OP_1, 11>>
    /\ klast.ret = KeyOk(<<"C", "O", "P", "R", ":", "O", "P", "_", "1", ":", "2", ",", "2", ",", "2">>)

\* C12: makeKeyString for keyword "RXF", wgname ":+:+:+:+" and
\* num = r1 + 32768*(r2 + 10) returns "RXF:r1-r2": r1 = 2, r2 = 3, num = 425986
\* gives "RXF:2-3".
Cex_C12_RegionToRegionKey ==
    (klast.args # <<>> /\ klast.args[1] = KW_RXF /\ klast.args[3] = 2 + 32768 * (3 + 10)) =>
        klast.ret = KeyOk(<<"R", "X", "F", ":", "2", "-", "3">>)

\* C13: for a W keyword makeKeyString returns the empty key when wgname is
\* ":+:+:+:+"; otherwise "KEYWORD:WGNAME:num" for a well-completion keyword
\* (WOPRL, and WOPRL__1 which is normalised to WOPRL) and "KEYWORD:WGNAME" for
\* every other W keyword (WOPR).
Thm_C13_WellKey ==
    (klast.args # <<>> /\ klast.args[1] \in {KW_WOPR, KW_WOPRL, KW_WOPRL__1}) =>
        LET kw == klast.args[1]
            wg == klast.args[2]
            num == klast.args[3]
        IN IF wg = <<":", "+", ":", "+", ":", "+", ":", "+">>
           THEN klast.ret = KeyOk(<<>>)
           ELSE IF kw = KW_WOPR
           THEN klast.ret = KeyOk(<<"W", "O", "P", "R", ":">> \o wg)
           ELSE klast.ret = KeyOk(<<"W", "O", "P", "R", "L", ":">> \o wg \o <<":">> \o FmtInt(num))

Wit_C13_WellKey ==
    /\ klast.args = <<KW_WOPRL__1, WG_OP_1, 1>>
    /\ klast.ret = KeyOk(<<"W", "O", "P", "R", "L", ":", "O", "P", "_", "1", ":", "1">>)

-----------------------------------------------------------------------------
(* ESmry: the files on disk.                                               *)
(*                                                                         *)
(* A run on disk is its SMSPEC file - the columns (KEYWORDS[i], WGNAMES[i],*)
(* NUMS[i]), DIMENS[1], DIMENS[2] and DIMENS[5] - and its result files in   *)
(* the order of resultsFileList, each the names of its records.  The files *)
(* are valid: DIMENS[0] is the number of columns, no SMSPEC file has LGRS  *)
(* records, no keyword is an L, B or C keyword, no result file is empty    *)
(* and a MINISTEP record is never the last record of a run.  A record is   *)
(* located by its index in its file, and the float stored in column c of   *)
(* the PARAMS record at position p of file f is ReadReal(f, p, c): all     *)
(* stored floats differ.                                                   *)

ColFOPT == [kw |-> KW_FOPT, wg |-> KW_NOWG, num |-> 0]          \* key "FOPT"
ColWOPR_1 == [kw |-> KW_WOPR, wg |-> WG_OP_1, num |-> 0]        \* key "WOPR:OP_1"
ColWOPR_2 == [kw |-> KW_WOPR, wg |-> WG_OP_2, num |-> 0]        \* key "WOPR:OP_2"
ColWOPR_none == [kw |-> KW_WOPR, wg |-> KW_NOWG, num |-> 0]     \* empty key

SmspecColumns == {ColFOPT, ColWOPR_1, ColWOPR_2, ColWOPR_none}
ColumnLists(C) == {<<a>> : a \in C} \cup {<<a, b>> : a \in C, b \in C}

SmspecDims == <<3, 2>>      \* DIMENS[1], DIMENS[2] of every run

MaxRestartStep == 2         \* DIMENS[5] of a restarted run is in 1..MaxRestartStep

\* Result files of one run (resultsFileList, lines 1184-1202).
ResultsOneStep == << <<"SEQHDR", "MINISTEP", "PARAMS">> >>
ResultsThreeSteps ==
    << <<"SEQHDR", "MINISTEP", "PARAMS", "MINISTEP", "PARAMS",
         "SEQHDR", "MINISTEP", "PARAMS">> >>
ResultsTwoFiles ==
    << <<"SEQHDR", "MINISTEP", "PARAMS">>, <<"SEQHDR", "MINISTEP", "PARAMS">> >>
ResultsNoMinistep == << <<"SEQHDR", "PARAMS", "MINISTEP", "PARAMS">> >>
ResultsNone == <<>>

AllResults ==
    {ResultsOneStep, ResultsThreeSteps, ResultsTwoFiles, ResultsNoMinistep, ResultsNone}

SmryRun(cols, rstep, results) ==
    [cols |-> cols, nI |-> SmspecDims[1], nJ |-> SmspecDims[2], rstep |-> rstep,
     results |-> results]

\* One run with any of the column lists and results, or a run of one time
\* step restarted from a base run of several, both with named columns.
SmryDisks ==
    {<<SmryRun(c, 0, r)>> : c \in ColumnLists(SmspecColumns), r \in AllResults}
    \cup {<<SmryRun(c1, s, ResultsOneStep), SmryRun(c2, 0, r2)>> :
            c1 \in ColumnLists(SmspecColumns \ {ColWOPR_none}),
            c2 \in ColumnLists(SmspecColumns \ {ColWOPR_none}),
            s \in 1..MaxRestartStep, r2 \in {ResultsThreeSteps, ResultsTwoFiles}}

\* The float stored in column paramPos of the PARAMS record at stepFilePos.
ReadReal(file, stepFilePos, paramPos) == <<file[1], file[2], stepFilePos, paramPos>>

\* std::nanf("")
NaN == <<>>

-----------------------------------------------------------------------------
(* ESmry::ESmry, the key lists (lines 804-1055, 1065-1071, 1137-1153)       *)

WgnamesOf(run) == [i \in 1..Len(run.cols) |-> run.cols[i].wg]

\* makeKeyString(normalise_keyword(keywords[i]), wgname, nums[i], {})
ColumnKey(col, wgname) == makeKeyString(normalise_keyword(col.kw), wgname, col.num, NoLgr).key

\* combindKeyList of one SMSPEC file
combindKeyList(run) == [i \in 1..Len(run.cols) |-> ColumnKey(run.cols[i], run.cols[i].wg)]

\* The SMSPEC files the constructor opens: the chain is followed only with
\* loadBaseRunData (lines 916, 943).
nSpecFilesOf(disk, load) == IF load THEN Len(disk) ELSE 1

Range(f) == {f[x] : x \in DOMAIN f}

\* keywList: the first file inserts every key string, the empty one too
\* (line 908); the restart files insert the non-empty ones (line 1045).
keywListOf(disk, load) ==
    Range(combindKeyList(disk[1]))
    \cup UNION {Range(combindKeyList(disk[s])) \ {EmptyStr} : s \in 2..nSpecFilesOf(disk, load)}

StdSetMin(S) == CHOOSE a \in S : \A b \in S \ {a} : StrLess(a, b)

RECURSIVE StdSetIterate_descending(_)
StdSetIterate_descending(S) ==
    IF S = {} THEN <<>>
    ELSE LET last == CHOOSE a \in S : \A b \in S \ {a} : StrLess(b, a)
         IN <<last>> \o StdSetIterate_descending(S \ {last})

\* Iteration over a std::set<std::string>: increasing by operator<.
RECURSIVE StdSetIterate(_)
StdSetIterate(S) ==
    IF S = {} THEN <<>>
    ELSE <<StdSetMin(S)>> \o StdSetIterate(S \ {StdSetMin(S)})

\* keyword, and with it keyIndex and keyword_index (lines 1065-1071, 1137-1143)
keywordOf(keywList) == SelectSeq(StdSetIterate(keywList), LAMBDA k : k # EmptyStr)

\* keyword_index.find(key): the ordinal of key, or -1 for end()
keyword_index(kwseq, key) ==
    IF \E o \in 1..Len(kwseq) : kwseq[o] = key
    THEN (CHOOSE o \in 1..Len(kwseq) : kwseq[o] = key) - 1
    ELSE -1

-----------------------------------------------------------------------------
(* ESmry::ESmry, arrayPos (lines 1073-1130)                                *)

\* What wgnames[i] can be when i is past the end of wgnames.
IndeterminateWgnames == {KW_NOWG, WG_OP_1, WG_OP_2}

\* arrayPos[specInd][keyIndex[keyw]] = i, when keyw is a key of keywList
ArrayPosPut(m, kwseq, keyw, i) ==
    IF keyw # EmptyStr /\ keyword_index(kwseq, keyw) >= 0
    THEN LET o == keyword_index(kwseq, keyw)
         IN [x \in (DOMAIN m) \cup {o} |-> IF x = o THEN i ELSE m[x]]
    ELSE m

\* The column loop of one spec file (lines 1121-1126), from column i on with
\* the map m built so far.  wgnames is the WGNAMES record the loop reads; a
\* read past its end yields an indeterminate name or stops the program.  The
\* result is the set of maps the loop can end with, [ok |-> FALSE] standing
\* for a stopped program.
RECURSIVE ArrayPosColumns(_, _, _, _, _)
ArrayPosColumns(cols, wgnames, kwseq, i, m) ==
    IF i >= Len(cols) THEN {[ok |-> TRUE, pos |-> m]}
    ELSE IF i < Len(wgnames)
         THEN ArrayPosColumns(cols, wgnames, kwseq, i + 1,
                  ArrayPosPut(m, kwseq, ColumnKey(At(cols, i), At(wgnames, i)), i))
    ELSE {[ok |-> FALSE, pos |-> <<>>]}
         \cup UNION {ArrayPosColumns(cols, wgnames, kwseq, i + 1,
                         ArrayPosPut(m, kwseq, ColumnKey(At(cols, i), g), i))
                     : g \in IndeterminateWgnames}

\* arrayPos[specInd]: KEYWORDS and NUMS are those of smspecList[specInd], the
\* names are those of smspecList.back() (lines 1090-1093).
ArrayPosOfSpecFile(disk, load, kwseq, specInd) ==
    ArrayPosColumns(disk[specInd + 1].cols, WgnamesOf(disk[nSpecFilesOf(disk, load)]),
                    kwseq, 0, <<>>)

\* The arrayPos vectors the constructor can build: [ok, pos], pos[specInd + 1]
\* the map of spec file specInd.
RECURSIVE ArrayPosBuild(_, _, _, _)
ArrayPosBuild(disk, load, kwseq, specInd) ==
    IF specInd < 0 THEN {[ok |-> TRUE, pos |-> <<>>]}
    ELSE LET rest == ArrayPosBuild(disk, load, kwseq, specInd - 1)
             mine == ArrayPosOfSpecFile(disk, load, kwseq, specInd)
         IN {IF a.ok /\ b.ok THEN [ok |-> TRUE, pos |-> Append(a.pos, b.pos)]
                             ELSE [ok |-> FALSE, pos |-> <<>>]
             : a \in rest, b \in mine}

-----------------------------------------------------------------------------
(* ESmry::ESmry, the time steps (lines 1132-1277)                          *)

IntMax == 2147483647        \* std::numeric_limits<int>::max()

\* arraySourceList of spec file specInd: every record of every result file,
\* [name, file, pos]; a data file is named by <<specInd, number>>.
RECURSIVE ArraySourceList(_, _, _)
ArraySourceList(specInd, results, f) ==
    IF f > Len(results) THEN <<>>
    ELSE [n \in 1..Len(results[f]) |->
              [name |-> results[f][n], file |-> <<specInd, f - 1>>, pos |-> n - 1]]
         \o ArraySourceList(specInd, results, f + 1)

\* ESmry::getListOfArrays (lines 1606-1711): the names of the records of one
\* result file; it throws on a file without a record and on a record that
\* is neither SEQHDR, MINISTEP nor PARAMS.
KnownArrays == {"SEQHDR", "MINISTEP", "PARAMS"}
getListOfArrays(file) ==
    IF file = <<>> THEN "fread error when loading summary data"
    ELSE IF \E n \in 1..Len(file) : file[n] \notin KnownArrays
         THEN "unknown array in summary data file"
    ELSE ""

\* The first result file getListOfArrays throws on, 0 if there is none.
FirstBadFile(results) ==
    LET bad == {f \in 1..Len(results) : getListOfArrays(results[f]) # ""}
    IN IF bad = {} THEN 0 ELSE CHOOSE f \in bad : \A g \in bad : f <= g

\* arraySourceList[i+1] read at i+1 = arraySourceList.size() (line 1233).
PastTheEnd == "read past the end of arraySourceList"

IndexOfFile(dfl, file) == {n \in 1..Len(dfl) : dfl[n] = file}

RECURSIVE ScanArrays_no_report_at_end(_, _, _, _)
ScanArrays_no_report_at_end(asl, specInd, toReportStepNumber, st) ==
    IF st.i >= Len(asl) THEN st
    ELSE IF At(asl, st.i).name # "MINISTEP"
         THEN [st EXCEPT !.err = "expecting keyword MINISTEP"]
    ELSE IF st.i + 1 >= Len(asl)
         THEN [st EXCEPT !.err = PastTheEnd]
    ELSE IF At(asl, st.i + 1).name # "PARAMS"
         THEN [st EXCEPT !.err = "expecting keyword PARAMS"]
    ELSE LET ms == At(asl, st.i)
             pa == At(asl, st.i + 1)
             isNew == IndexOfFile(st.dataFileList, pa.file) = {}
             dfl == IF isNew THEN Append(st.dataFileList, pa.file) ELSE st.dataFileList
             dfi == IF isNew THEN st.dataFileIndex + 1 ELSE st.dataFileIndex
             i2 == st.i + 2
             newReport == IF i2 < Len(asl) THEN At(asl, i2).name = "SEQHDR" ELSE FALSE
             i3 == IF i2 < Len(asl) /\ newReport THEN i2 + 1 ELSE i2
             rep == IF newReport THEN st.reportStepNumber + 1 ELSE st.reportStepNumber
         IN ScanArrays_no_report_at_end(asl, specInd, toReportStepNumber,
                [i |-> IF rep >= toReportStepNumber THEN Len(asl) ELSE i3,
                 reportStepNumber |-> rep,
                 step |-> st.step + 1,
                 dataFileIndex |-> dfi,
                 dataFileList |-> dfl,
                 timeStepList |-> Append(st.timeStepList, <<specInd, dfi, pa.pos>>),
                 miniStepList |-> Append(st.miniStepList, <<specInd, dfi, ms.pos>>),
                 seqIndex |-> IF newReport THEN Append(st.seqIndex, st.step)
                                           ELSE st.seqIndex,
                 err |-> st.err])

\* The loop over arraySourceList (lines 1226-1270).  st is the state of the
\* scan: [i, reportStepNumber, step, dataFileIndex, dataFileList,
\* timeStepList, miniStepList, seqIndex, err].
RECURSIVE ScanArrays(_, _, _, _)
ScanArrays(asl, specInd, toReportStepNumber, st) ==
    IF st.i >= Len(asl) THEN st
    ELSE IF At(asl, st.i).name # "MINISTEP"
         THEN [st EXCEPT !.err = "expecting keyword MINISTEP"]
    ELSE IF st.i + 1 >= Len(asl)
         THEN [st EXCEPT !.err = PastTheEnd]
    ELSE IF At(asl, st.i + 1).name # "PARAMS"
         THEN [st EXCEPT !.err = "expecting keyword PARAMS"]
    ELSE LET ms == At(asl, st.i)
             pa == At(asl, st.i + 1)
             isNew == IndexOfFile(st.dataFileList, pa.file) = {}
             dfl == IF isNew THEN Append(st.dataFileList, pa.file) ELSE st.dataFileList
             dfi == IF isNew THEN st.dataFileIndex + 1 ELSE st.dataFileIndex
             i2 == st.i + 2
             newReport == IF i2 < Len(asl) THEN At(asl, i2).name = "SEQHDR" ELSE TRUE
             i3 == IF i2 < Len(asl) /\ newReport THEN i2 + 1 ELSE i2
             rep == IF newReport THEN st.reportStepNumber + 1 ELSE st.reportStepNumber
         IN ScanArrays(asl, specInd, toReportStepNumber,
                [i |-> IF rep >= toReportStepNumber THEN Len(asl) ELSE i3,
                 reportStepNumber |-> rep,
                 step |-> st.step + 1,
                 dataFileIndex |-> dfi,
                 dataFileList |-> dfl,
                 timeStepList |-> Append(st.timeStepList, <<specInd, dfi, pa.pos>>),
                 miniStepList |-> Append(st.miniStepList, <<specInd, dfi, ms.pos>>),
                 seqIndex |-> IF newReport THEN Append(st.seqIndex, st.step)
                                           ELSE st.seqIndex,
                 err |-> st.err])

\* The loop over the spec files, base run first (lines 1158-1277).
RECURSIVE ScanRuns(_, _, _, _)
ScanRuns(disk, specInd, fromReportStepNumber, st) ==
    IF specInd < 0 THEN st
    ELSE LET toReportStepNumber == IF specInd > 0 THEN disk[specInd].rstep ELSE IntMax
             results == disk[specInd + 1].results
             asl == ArraySourceList(specInd, results, 1)
         IN IF results = <<>>
            THEN [st EXCEPT !.err = "neigther unified or non-unified result files found"]
            ELSE IF FirstBadFile(results) # 0
            THEN [st EXCEPT !.err = getListOfArrays(results[FirstBadFile(results)])]
            ELSE LET st2 == ScanArrays(asl, specInd, toReportStepNumber,
                               [st EXCEPT !.i = IF asl[1].name = "SEQHDR" THEN 1 ELSE 0,
                                          !.reportStepNumber = fromReportStepNumber])
                 IN IF st2.err # "" THEN st2
                    ELSE ScanRuns(disk, specInd - 1, toReportStepNumber, st2)

ScanStart ==
    [i |-> 0, reportStepNumber |-> 0, step |-> 0, dataFileIndex |-> -1,
     dataFileList |-> <<>>, timeStepList |-> <<>>, miniStepList |-> <<>>,
     seqIndex |-> <<>>, err |-> ""]

-----------------------------------------------------------------------------
(* ESmry::ESmry (lines 769-1281)                                           *)

\* The root name in RESTART of spec file s (getRstString, lines 1814-1825):
\* run r + 1 of the disk is the run that run r was restarted from.
RootNames == <<"CASE", "BASE", "BASE0">>
rstRootN(disk, s) == IF s < Len(disk) THEN RootNames[s + 1] ELSE ""

\* How the constructor can end after the scan: "ready", "failed" when it
\* threw, and after a read past the end of arraySourceList whatever the
\* indeterminate name makes of it: a crash, the throw of line 1234, or an
\* object whose last time step is located by indeterminate data ("corrupt").
ScanEndings(scan) ==
    IF scan.err = PastTheEnd THEN {"crashed", "failed", "corrupt"}
    ELSE IF scan.err # "" THEN {"failed"}
    ELSE {"ready"}

\* The states the constructor can leave: the object, or "failed" when it
\* threw, or "crashed" when a read past the end of WGNAMES stopped it.
ESmryCtorOutcomes(disk, load) ==
    LET n == nSpecFilesOf(disk, load)
        kwseq == keywordOf(keywListOf(disk, load))
        scan == ScanRuns(disk, n - 1, 0, ScanStart)
    IN UNION {{[spc |-> e, arrayPos |-> ap.pos, scan |-> scan]
               : e \in IF ~ap.ok THEN {"crashed"} ELSE ScanEndings(scan)}
              : ap \in ArrayPosBuild(disk, load, kwseq, n - 1)}

ESmryCtor ==
    /\ spc = "new"
    /\ \E out \in ESmryCtorOutcomes(smryDisk, loadBaseRunData) :
          LET n == nSpecFilesOf(smryDisk, loadBaseRunData)
              kwseq == keywordOf(keywListOf(smryDisk, loadBaseRunData))
              built == out.spc = "ready"
          IN /\ spc' = out.spc
             /\ nI' = IF built THEN smryDisk[1].nI ELSE nI
             /\ nJ' = IF built THEN smryDisk[1].nJ ELSE nJ
             /\ keywordListSpecFile' =
                   IF built THEN [s \in 1..n |-> combindKeyList(smryDisk[s])] ELSE <<>>
             /\ nParamsSpecFile' =
                   IF built THEN [s \in 1..n |-> Len(smryDisk[s].cols)] ELSE <<>>
             /\ arrayPos' = IF built THEN out.arrayPos ELSE <<>>
             /\ keyword' = IF built THEN kwseq ELSE <<>>
             /\ vectorData' = IF built THEN [o \in 1..Len(kwseq) |-> <<>>] ELSE <<>>
             /\ vectorLoaded' = IF built THEN [o \in 1..Len(kwseq) |-> FALSE] ELSE <<>>
             /\ timeStepList' = IF built THEN out.scan.timeStepList ELSE <<>>
             /\ miniStepList' = IF built THEN out.scan.miniStepList ELSE <<>>
             /\ seqIndex' = IF built THEN out.scan.seqIndex ELSE <<>>
             /\ dataFileList' = IF built THEN out.scan.dataFileList ELSE <<>>
             /\ restart_info' =
                   IF built /\ rstRootN(smryDisk, 1) # "" /\ loadBaseRunData
                   THEN <<rstRootN(smryDisk, 1), smryDisk[1].rstep>>
                   ELSE <<"", 0>>
    /\ slast' = [op |-> "ESmry", names |-> <<>>, ok |-> spc' = "ready"]
    /\ UNCHANGED <<extVars, gridVars, klast, smryDisk, loadBaseRunData, mini_steps, esmryFile>>

-----------------------------------------------------------------------------
(* ESmry::loadData(vectList) (lines 1366-1469)                             *)

hasKey(key) == \E o \in 1..Len(keyword) : keyword[o] = key

\* keywIndVect: the ordinals of the keys of vectList that are not loaded
keywIndVectOf_loaded_too(vectList, vl) ==
    [n \in 1..Len(vectList) |-> keyword_index(keyword, vectList[n])]

RECURSIVE keywIndVectOf(_, _)
keywIndVectOf(vectList, vl) ==
    IF vectList = <<>> THEN <<>>
    ELSE LET ind == keyword_index(keyword, Head(vectList))
         IN (IF At(vl, ind) THEN <<>> ELSE <<ind>>) \o keywIndVectOf(Tail(vectList), vl)

\* The loop over keywIndVect at one time step (lines 1418-1459)
RECURSIVE LoadKeysAtStep(_, _, _, _, _)
LoadKeysAtStep(inds, specInd, dataFileIndex, stepFilePos, vd) ==
    IF inds = <<>> THEN vd
    ELSE LET ind == Head(inds)
             pos == At(arrayPos, specInd)
             value == IF ind \in DOMAIN pos
                      THEN ReadReal(At(dataFileList, dataFileIndex), stepFilePos, pos[ind])
                      ELSE NaN
         IN LoadKeysAtStep(Tail(inds), specInd, dataFileIndex, stepFilePos,
                           [vd EXCEPT ![ind + 1] = Append(@, value)])

\* The loop over timeStepList from step n on (lines 1404-1460); cur is
\* <<specInd, dataFileIndex>> of the open file.
RECURSIVE LoadKeysSteps(_, _, _, _)
LoadKeysSteps(inds, n, cur, vd) ==
    IF n >= Len(timeStepList) THEN vd
    ELSE LET ministep == At(timeStepList, n)
             cur2 == IF cur[2] # ministep[2] THEN <<ministep[1], ministep[2]>> ELSE cur
         IN LoadKeysSteps(inds, n + 1, cur2,
                          LoadKeysAtStep(inds, cur2[1], cur2[2], ministep[3], vd))

RECURSIVE MarkLoaded(_, _)
MarkLoaded(inds, vl) ==
    IF inds = <<>> THEN vl ELSE MarkLoaded(Tail(inds), [vl EXCEPT ![Head(inds) + 1] = TRUE])

loadData_keys_throws_late(vectList, vd, vl) ==
    LET known == SelectSeq(vectList, hasKey)
        inds == keywIndVectOf(known, vl)
        first == At(timeStepList, 0)
    IN [ok |-> known = vectList,
        vectorData |-> LoadKeysSteps(inds, 0, <<first[1], first[2]>>, vd),
        vectorLoaded |-> MarkLoaded(inds, vl)]

\* loadData(vectList) on an object with vectorData vd and vectorLoaded vl:
\* [ok, vectorData, vectorLoaded]
loadData_keys(vectList, vd, vl) ==
    IF \E n \in 1..Len(vectList) : ~hasKey(vectList[n])
    THEN [ok |-> FALSE, vectorData |-> vd, vectorLoaded |-> vl]
    ELSE LET inds == keywIndVectOf(vectList, vl)
             first == At(timeStepList, 0)
         IN [ok |-> TRUE,
             vectorData |-> LoadKeysSteps(inds, 0, <<first[1], first[2]>>, vd),
             vectorLoaded |-> MarkLoaded(inds, vl)]

-----------------------------------------------------------------------------
(* ESmry::makeKeywPosVector and ESmry::loadData() (lines 1471-1603)        *)

RECURSIVE KeywPosFrom(_, _, _)
KeywPosFrom(kwList, n, keywpos) ==
    IF n >= Len(kwList) THEN keywpos
    ELSE LET it == keyword_index(keyword, At(kwList, n))
             has_index == \E x \in 1..Len(keywpos) : keywpos[x] = it
         IN KeywPosFrom(kwList, n + 1,
                IF it = -1 \/ has_index THEN keywpos ELSE [keywpos EXCEPT ![n + 1] = it])

makeKeywPosVector(specInd) ==
    KeywPosFrom(At(keywordListSpecFile, specInd), 0,
                [n \in 1..At(nParamsSpecFile, specInd) |-> -1])

\* The loop over the values of one PARAMS record (lines 1576-1582)
RECURSIVE LoadAllAtStep(_, _, _, _, _, _)
LoadAllAtStep(keywpos, p, file, stepFilePos, vd, vl) ==
    IF p >= Len(keywpos) THEN vd
    ELSE LoadAllAtStep(keywpos, p + 1, file, stepFilePos,
             IF At(keywpos, p) > -1 /\ ~At(vl, At(keywpos, p))
             THEN [vd EXCEPT ![At(keywpos, p) + 1] = Append(@, ReadReal(file, stepFilePos, p))]
             ELSE vd,
             vl)

\* The loop over timeStepList from step n on (lines 1511-1600); cur is
\* <<specInd, dataFileIndex, keywpos>>.
RECURSIVE LoadAllSteps(_, _, _, _)
LoadAllSteps(n, cur, vd, vl) ==
    IF n >= Len(timeStepList) THEN vd
    ELSE LET ministep == At(timeStepList, n)
             cur2 == IF cur[2] # ministep[2]
                     THEN IF cur[1] # ministep[1]
                          THEN <<ministep[1], ministep[2], makeKeywPosVector(ministep[1])>>
                          ELSE <<cur[1], ministep[2], cur[3]>>
                     ELSE cur
         IN LoadAllSteps(n + 1, cur2,
                LoadAllAtStep(cur2[3], 0, At(dataFileList, cur2[2]), ministep[3], vd, vl),
                vl)

\* loadData() on an object with vectorData vd and vectorLoaded vl
loadData_all(vd, vl) ==
    IF timeStepList = <<>> THEN [ok |-> TRUE, vectorData |-> vd, vectorLoaded |-> vl]
    ELSE LET first == At(timeStepList, 0)
         IN [ok |-> TRUE,
             vectorData |-> LoadAllSteps(0, <<first[1], first[2], makeKeywPosVector(first[1])>>,
                                         vd, vl),
             vectorLoaded |-> [o \in 1..Len(vl) |-> TRUE]]

-----------------------------------------------------------------------------
(* The methods of a constructed ESmry                                      *)

\* The names asked for: the keys of the object and a name that is no key;
\* the lists: one name, the first key with the unknown name, the first key twice.
SmryNames == Range(keyword) \cup {KW_TIME}
SmryVectLists ==
    {<<a>> : a \in SmryNames}
    \cup UNION {{<<keyword[o], KW_TIME>>, <<KW_TIME, keyword[o]>>, <<keyword[o], keyword[o]>>}
                : o \in DOMAIN keyword \cap {1}}

\* ESmry::get(name) (lines 2011-2027); the vector returned is
\* vectorData[ind] of the state it leaves.
CallGet ==
    /\ spc = "ready"
    /\ \E name \in SmryNames :
          LET ind == keyword_index(keyword, name)
              r == IF ind >= 0 /\ ~At(vectorLoaded, ind)
                   THEN loadData_keys(<<name>>, vectorData, vectorLoaded)
                   ELSE [ok |-> ind >= 0, vectorData |-> vectorData,
                         vectorLoaded |-> vectorLoaded]
          IN /\ vectorData' = r.vectorData
             /\ vectorLoaded' = IF ind >= 0 THEN [r.vectorLoaded EXCEPT ![ind + 1] = TRUE]
                                            ELSE r.vectorLoaded
             /\ slast' = [op |-> "get", names |-> <<name>>, ok |-> r.ok]
    /\ UNCHANGED <<extVars, gridVars, keyVars, smryDisk, loadBaseRunData, spc, keywordListSpecFile,
                   nParamsSpecFile, arrayPos, keyword, timeStepList, miniStepList,
                   seqIndex, dataFileList, restart_info, mini_steps, esmryFile>>

CallLoadDataKeys ==
    /\ spc = "ready"
    /\ \E vectList \in SmryVectLists :
          LET r == loadData_keys(vectList, vectorData, vectorLoaded)
          IN /\ vectorData' = r.vectorData
             /\ vectorLoaded' = r.vectorLoaded
             /\ slast' = [op |-> "loadData(vectList)", names |-> vectList, ok |-> r.ok]
    /\ UNCHANGED <<extVars, gridVars, keyVars, smryDisk, loadBaseRunData, spc, keywordListSpecFile,
                   nParamsSpecFile, arrayPos, keyword, timeStepList, miniStepList,
                   seqIndex, dataFileList, restart_info, mini_steps, esmryFile>>

CallLoadData ==
    /\ spc = "ready"
    /\ LET r == loadData_all(vectorData, vectorLoaded)
       IN /\ vectorData' = r.vectorData
          /\ vectorLoaded' = r.vectorLoaded
          /\ slast' = [op |-> "loadData()", names |-> <<>>, ok |-> r.ok]
    /\ UNCHANGED <<extVars, gridVars, keyVars, smryDisk, loadBaseRunData, spc, keywordListSpecFile,
                   nParamsSpecFile, arrayPos, keyword, timeStepList, miniStepList,
                   seqIndex, dataFileList, restart_info, mini_steps, esmryFile>>

InitSmry ==
    /\ GridIdle
    /\ ExtIdle
    /\ nI = 0 /\ nJ = 0
    /\ klast = [args |-> <<>>, ret |-> KeyOk(EmptyStr)]
    /\ smryDisk \in SmryDisks
    /\ loadBaseRunData \in BOOLEAN
    /\ spc = "new"
    /\ keywordListSpecFile = <<>>
    /\ nParamsSpecFile = <<>>
    /\ arrayPos = <<>>
    /\ keyword = <<>>
    /\ vectorData = <<>>
    /\ vectorLoaded = <<>>
    /\ timeStepList = <<>>
    /\ miniStepList = <<>>
    /\ seqIndex = <<>>
    /\ dataFileList = <<>>
    /\ restart_info = <<"", 0>>
    /\ mini_steps = <<>>
    /\ esmryFile = [exists |-> FALSE, records |-> <<>>]
    /\ slast = [op |-> "none", names |-> <<>>, ok |-> TRUE]

NextSmry ==
    \/ ESmryCtor
    \/ CallGet
    \/ CallLoadDataKeys
    \/ CallLoadData

SpecSmry == InitSmry /\ [][NextSmry]_vars

-----------------------------------------------------------------------------
(* ESmry::make_esmry_file (lines 1713-1788)                                *)

\* The integer of the MINISTEP record at stepFilePos of a result file.
ReadMinistep(file, stepFilePos) == <<"MINISTEP", file[1], file[2], stepFilePos>>

\* ESmry::read_ministeps_from_disk (lines 1283-1328)
read_ministeps_from_disk ==
    [n \in 1..Len(miniStepList) |->
        ReadMinistep(At(dataFileList, miniStepList[n][2]), miniStepList[n][3])]

\* is_rstep (lines 1736-1743)
is_rstep ==
    [i \in 1..Len(timeStepList) |->
        IF \E m \in 1..Len(seqIndex) : seqIndex[m] = i - 1 THEN 1 ELSE 0]

EsmryRecord(name, data) == [name |-> name, data |-> data]

\* The records written (lines 1765-1783); vd is vectorData after loadData().
EsmryRecords(ms, vd) ==
    << EsmryRecord("START", <<"STARTDAT", 1>>) >>
    \o (IF restart_info[1] # ""
        THEN << EsmryRecord("RESTART", <<restart_info[1]>>),
                EsmryRecord("RSTNUM", <<restart_info[2]>>) >>
        ELSE <<>>)
    \o << EsmryRecord("KEYCHECK", keyword),
          EsmryRecord("UNITS", [o \in 1..Len(keyword) |-> <<"unit", keyword[o]>>]),
          EsmryRecord("RSTEP", is_rstep),
          EsmryRecord("TSTEP", ms) >>
    \o [n \in 1..Len(vd) |-> EsmryRecord("V" \o ToString(n - 1), vd[n])]

CallMakeEsmryFile_replaces_file ==
    /\ spc = "ready"
    /\ IF loadBaseRunData
       THEN /\ slast' = [op |-> "make_esmry_file", names |-> <<>>, ok |-> FALSE, ret |-> FALSE]
            /\ UNCHANGED <<mini_steps, esmryFile, vectorData, vectorLoaded>>
       ELSE LET ms == IF mini_steps = <<>> THEN read_ministeps_from_disk ELSE mini_steps
                r == loadData_all(vectorData, vectorLoaded)
            IN /\ mini_steps' = ms
               /\ vectorData' = r.vectorData
               /\ vectorLoaded' = r.vectorLoaded
               /\ esmryFile' = [exists |-> TRUE,
                                records |-> EsmryRecords(ms, r.vectorData)]
               /\ slast' = [op |-> "make_esmry_file", names |-> <<>>, ok |-> TRUE,
                            ret |-> ~esmryFile.exists]
    /\ UNCHANGED <<extVars, gridVars, keyVars, smryDisk, loadBaseRunData, spc, keywordListSpecFile,
                   nParamsSpecFile, arrayPos, keyword, timeStepList, miniStepList,
                   seqIndex, dataFileList, restart_info>>

CallMakeEsmryFile ==
    /\ spc = "ready"
    /\ IF loadBaseRunData
       THEN /\ slast' = [op |-> "make_esmry_file", names |-> <<>>, ok |-> FALSE, ret |-> FALSE]
            /\ UNCHANGED <<mini_steps, esmryFile, vectorData, vectorLoaded>>
       ELSE LET ms == IF mini_steps = <<>> THEN read_ministeps_from_disk ELSE mini_steps
                r == loadData_all(vectorData, vectorLoaded)
            IN /\ mini_steps' = ms
               /\ IF esmryFile.exists
                  THEN /\ slast' = [op |-> "make_esmry_file", names |-> <<>>, ok |-> TRUE,
                                    ret |-> FALSE]
                       /\ UNCHANGED <<esmryFile, vectorData, vectorLoaded>>
                  ELSE /\ vectorData' = r.vectorData
                       /\ vectorLoaded' = r.vectorLoaded
                       /\ esmryFile' = [exists |-> TRUE,
                                        records |-> EsmryRecords(ms, r.vectorData)]
                       /\ slast' = [op |-> "make_esmry_file", names |-> <<>>, ok |-> TRUE,
                                    ret |-> TRUE]
    /\ UNCHANGED <<extVars, gridVars, keyVars, smryDisk, loadBaseRunData, spc, keywordListSpecFile,
                   nParamsSpecFile, arrayPos, keyword, timeStepList, miniStepList,
                   seqIndex, dataFileList, restart_info>>

-----------------------------------------------------------------------------
(* The scan of the result files and the ESMRY writer: SpecScan opens runs   *)
(* whose result file holds any stream of record names up to MaxRecords, and *)
(* restarted runs with a base run of several report steps.                  *)

MaxRecords == 6             \* records of the result file of a single run

RecordStreams == UNION {[1..n -> KnownArrays] : n \in 1..MaxRecords}

ResultsUnknownArray == << <<"SEQHDR", "MINISTEP", "PARAMS", "INTEHEAD">> >>
ResultsEmptyFile == << <<"SEQHDR", "MINISTEP", "PARAMS">>, <<>> >>
ResultsFiveSteps ==
    << <<"MINISTEP", "PARAMS", "MINISTEP", "PARAMS", "SEQHDR", "MINISTEP", "PARAMS",
         "MINISTEP", "PARAMS", "MINISTEP", "PARAMS">> >>
ResultsSplitSteps ==
    << <<"MINISTEP", "PARAMS">>, <<"MINISTEP", "PARAMS", "SEQHDR">>, <<"MINISTEP", "PARAMS">> >>

\* A MINISTEP record at the end of one file, its PARAMS record in the next.
ResultsSplitRecord ==
    << <<"SEQHDR", "MINISTEP", "PARAMS", "MINISTEP">>, <<"PARAMS", "MINISTEP", "PARAMS">> >>

ScanColumns == {<<ColFOPT>>, <<ColFOPT, ColWOPR_1>>}

ScanDisks ==
    {<<SmryRun(<<ColFOPT>>, 0, <<stream>>)>> : stream \in RecordStreams}
    \cup {<<SmryRun(c, 0, r)>> :
            c \in ScanColumns,
            r \in {ResultsUnknownArray, ResultsEmptyFile, ResultsFiveSteps,
                   ResultsSplitSteps, ResultsSplitRecord, ResultsTwoFiles, ResultsNone}}
    \cup {<<SmryRun(c, s, ResultsOneStep), SmryRun(<<ColFOPT>>, 0, r2)>> :
            c \in ScanColumns, s \in 0..MaxRestartStep,
            r2 \in {ResultsThreeSteps, ResultsTwoFiles, ResultsFiveSteps, ResultsSplitSteps}}

InitScan ==
    /\ GridIdle
    /\ ExtIdle
    /\ nI = 0 /\ nJ = 0
    /\ klast = [args |-> <<>>, ret |-> KeyOk(EmptyStr)]
    /\ smryDisk \in ScanDisks
    /\ loadBaseRunData \in BOOLEAN
    /\ spc = "new"
    /\ keywordListSpecFile = <<>>
    /\ nParamsSpecFile = <<>>
    /\ arrayPos = <<>>
    /\ keyword = <<>>
    /\ vectorData = <<>>
    /\ vectorLoaded = <<>>
    /\ timeStepList = <<>>
    /\ miniStepList = <<>>
    /\ seqIndex = <<>>
    /\ dataFileList = <<>>
    /\ restart_info = <<"", 0>>
    /\ mini_steps = <<>>
    /\ esmryFile \in {[exists |-> FALSE, records |-> <<>>],
                      [exists |-> TRUE, records |-> <<EsmryRecord("START", <<"STARTDAT", 0>>)>>]}
    /\ slast = [op |-> "none", names |-> <<>>, ok |-> TRUE]

NextScan ==
    \/ ESmryCtor
    \/ CallMakeEsmryFile

SpecScan == InitScan /\ [][NextScan]_vars

-----------------------------------------------------------------------------
(* Claims about ESmry, checked under SpecSmry *)

Key_FOPT == KW_FOPT
Key_WOPR_OP_1 == KW_WOPR \o Colon \o WG_OP_1
Key_WOPR_OP_2 == KW_WOPR \o Colon \o WG_OP_2

OpenedRuns == 1..nSpecFilesOf(smryDisk, loadBaseRunData)

\* The non-empty key strings that the columns of run s build, each from the
\* KEYWORDS, WGNAMES and NUMS of its own column.
OwnKeys(s) == Range(combindKeyList(smryDisk[s])) \ {EmptyStr}
EmittedKeys == UNION {OwnKeys(s) : s \in OpenedRuns}

\* The first occurrences of a sequence, in order.
RECURSIVE FirstOccurrences(_, _)
FirstOccurrences(seq, seen) ==
    IF seq = <<>> THEN <<>>
    ELSE IF Head(seq) \in seen THEN FirstOccurrences(Tail(seq), seen)
    ELSE <<Head(seq)>> \o FirstOccurrences(Tail(seq), seen \cup {Head(seq)})

\* The keys of runs s, s-1, .., 1 column by column: the base-most run first.
RECURSIVE EmittedFromBase(_)
EmittedFromBase(s) ==
    IF s < 1 THEN <<>> ELSE combindKeyList(smryDisk[s]) \o EmittedFromBase(s - 1)

Cex_C2_ArrayPosOwnColumn ==
    spc = "ready" =>
        /\ Len(keyword) = Cardinality(EmittedKeys)
        /\ \A s \in OpenedRuns : \A o \in DOMAIN arrayPos[s] :
              LET i == arrayPos[s][o]
              IN /\ i \in 0..(Len(smryDisk[s].cols) - 1)
                 /\ o \in 0..(Len(keyword) - 1)
                 /\ At(combindKeyList(smryDisk[s]), i) = At(keyword, o)

FreshData == [o \in 1..Len(keyword) |-> <<>>]
NoneLoaded == [o \in 1..Len(keyword) |-> FALSE]

\* C3: for every key and every time step, the value loadData({key}) reads at
\* the key's column of the PARAMS record is the value the bulk loadData()
\* assigns to that key from the same record, for every spec file content.
Cex_C3_PerKeyEqualsBulk ==
    spc = "ready" =>
        \A n \in 0..(Len(timeStepList) - 1) : \A o \in 0..(Len(keyword) - 1) :
            LET ministep == At(timeStepList, n)
                perKey == At(LoadKeysAtStep(<<o>>, ministep[1], ministep[2], ministep[3],
                                            FreshData), o)
                bulk == At(LoadAllAtStep(makeKeywPosVector(ministep[1]), 0,
                                         At(dataFileList, ministep[2]), ministep[3],
                                         FreshData, NoneLoaded), o)
            IN perKey # <<NaN>> => bulk = perKey

\* C4: with loadBaseRunData, get(key) returns one sample per time step of the
\* chain: NaN at the steps of a run whose spec file has no column for the
\* key, and the value of such a column in the run's PARAMS record elsewhere.
Cex_C4_GetNaNFill ==
    (spc = "ready" /\ loadBaseRunData /\ slast.op = "get" /\ slast.ok) =>
        LET key == slast.names[1]
            samples == At(vectorData, keyword_index(keyword, key))
        IN /\ Len(samples) = Len(timeStepList)
           /\ \A n \in 0..(Len(timeStepList) - 1) :
                 LET ministep == At(timeStepList, n)
                     run == smryDisk[ministep[1] + 1]
                     columns == {i \in 0..(Len(run.cols) - 1) :
                                    At(combindKeyList(run), i) = key}
                 IN IF columns = {}
                    THEN At(samples, n) = NaN
                    ELSE At(samples, n) \in
                            {ReadReal(At(dataFileList, ministep[2]), ministep[3], i) :
                                i \in columns}

\* A get(name) or loadData(vectList) call that names something that is no key.
C17_Step ==
    (/\ spc = "ready"
     /\ slast'.op \in {"get", "loadData(vectList)"}
     /\ \E n \in 1..Len(slast'.names) : ~hasKey(slast'.names[n])) =>
        /\ ~slast'.ok
        /\ vectorData' = vectorData
        /\ vectorLoaded' = vectorLoaded

\* C17: get(name) for a name that is no key, and loadData(keys) for a list
\* holding such a name at any position, fail with an error and leave every
\* vectorData entry and every vectorLoaded flag as before the call.
Thm_C17_UnknownKey == [][C17_Step]_vars

Wit_C17_UnknownKey ==
    /\ spc = "ready"
    /\ slast = [op |-> "loadData(vectList)", names |-> <<Key_FOPT, KW_TIME>>, ok |-> FALSE]
    /\ ~At(vectorLoaded, keyword_index(keyword, Key_FOPT))
    /\ At(vectorData, keyword_index(keyword, Key_FOPT)) = <<>>

-----------------------------------------------------------------------------
(* Claims about the scan of the result files and the ESMRY writer           *)

\* The record that follows the PARAMS record of time step n (1..nTstep) in
\* the result files of its run, "" when that record is the last one.
RecordAfterStep(n) ==
    LET ts == timeStepList[n]
        results == smryDisk[ts[1] + 1].results
        f == At(dataFileList, ts[2])[2] + 1
    IN IF ts[3] + 2 <= Len(results[f]) THEN results[f][ts[3] + 2]
       ELSE IF f < Len(results) THEN results[f + 1][1]
       ELSE ""

IsReportStep(n) == RecordAfterStep(n) \in {"SEQHDR", ""}

WroteEsmry == slast.op = "make_esmry_file" /\ slast.ok /\ slast.ret

RecordsNamed(name) ==
    {x \in 1..Len(esmryFile.records) : esmryFile.records[x].name = name}

\* C14: a time step is a report step exactly when its PARAMS record is
\* followed by a SEQHDR record or is the last record of the result files of
\* its run: seqIndex holds the 0-based ordinals of exactly those steps, in
\* increasing order, each below the number of time steps, and the RSTEP
\* record of the ESMRY file marks the same steps with 1.
Thm_C14_ReportSteps ==
    spc = "ready" =>
        /\ \A n \in 1..Len(timeStepList) :
              (\E m \in 1..Len(seqIndex) : seqIndex[m] = n - 1) <=> IsReportStep(n)
        /\ \A m \in 1..Len(seqIndex) : seqIndex[m] \in 0..(Len(timeStepList) - 1)
        /\ \A m \in 1..(Len(seqIndex) - 1) : seqIndex[m] < seqIndex[m + 1]
        /\ WroteEsmry =>
              \A x \in RecordsNamed("RSTEP") :
                  esmryFile.records[x].data =
                      [n \in 1..Len(timeStepList) |-> IF IsReportStep(n) THEN 1 ELSE 0]

Wit_C14_ReportSteps ==
    /\ smryDisk = <<SmryRun(<<ColFOPT>>, 0, ResultsFiveSteps)>>
    /\ seqIndex = <<1, 4>>
    /\ WroteEsmry
    /\ \E x \in RecordsNamed("RSTEP") : esmryFile.records[x].data = <<0, 1, 0, 0, 1>>

\* A make_esmry_file call on a constructed object.
C15_Step ==
    (spc = "ready" /\ slast'.op = "make_esmry_file") =>
        /\ loadBaseRunData => (~slast'.ok /\ esmryFile' = esmryFile)
        /\ (~loadBaseRunData /\ esmryFile.exists) =>
              (slast'.ok /\ ~slast'.ret /\ esmryFile' = esmryFile)
        /\ (~loadBaseRunData /\ ~esmryFile.exists) =>
              /\ slast'.ok /\ slast'.ret
              /\ esmryFile'.exists
              /\ RecordsNamed("KEYCHECK")' # {}

\* C15: make_esmry_file fails with an error on an object constructed with
\* loadBaseRunData = true; when the .ESMRY file exists it returns false and
\* leaves the file as it is; otherwise it writes the file and returns true.
Thm_C15_MakeEsmryFile == [][C15_Step]_vars

Wit_C15_MakeEsmryFile ==
    /\ slast.op = "make_esmry_file" /\ slast.ok /\ ~slast.ret
    /\ esmryFile = [exists |-> TRUE, records |-> <<EsmryRecord("START", <<"STARTDAT", 0>>)>>]

\* C16: when RESTART of the SMSPEC names a root, the ESMRY file written holds
\* START, then RESTART with that root, then RSTNUM with DIMENS[5], then
\* KEYCHECK; when the root is empty it holds neither RESTART nor RSTNUM.
Cex_C16_RestartRecords ==
    WroteEsmry =>
        LET root == rstRootN(smryDisk, 1)
            recs == esmryFile.records
        IN IF root # ""
           THEN /\ Len(recs) >= 4
                /\ recs[1].name = "START"
                /\ recs[2] = EsmryRecord("RESTART", <<root>>)
                /\ recs[3] = EsmryRecord("RSTNUM", <<smryDisk[1].rstep>>)
                /\ recs[4].name = "KEYCHECK"
           ELSE RecordsNamed("RESTART") = {} /\ RecordsNamed("RSTNUM") = {}

\* The two-state machine S0 --SEQHDR--> S0, S0 --MINISTEP--> S1,
\* S1 --PARAMS--> S0: the state it is in after a stream read from state q.
RECURSIVE MachineState(_, _)
MachineState(stream, q) ==
    IF stream = <<>> THEN q
    ELSE IF q = "S0" /\ Head(stream) = "SEQHDR" THEN MachineState(Tail(stream), "S0")
    ELSE IF q = "S0" /\ Head(stream) = "MINISTEP" THEN MachineState(Tail(stream), "S1")
    ELSE IF q = "S1" /\ Head(stream) = "PARAMS" THEN MachineState(Tail(stream), "S0")
    ELSE "error"

RECURSIVE Concat(_)
Concat(files) == IF files = <<>> THEN <<>> ELSE Head(files) \o Concat(Tail(files))

\* C19: the scan accepts the record names of a run's result files exactly
\* when the two-state machine accepts them; a name the machine has no
\* transition for, and a stream ending after MINISTEP, raise an error; an
\* accepted stream yields one time step per PARAMS record.
Cex_C19_ScanMachine ==
    (/\ spc # "new"
     /\ nSpecFilesOf(smryDisk, loadBaseRunData) = 1
     /\ smryDisk[1].results # <<>>
     /\ \A f \in 1..Len(smryDisk[1].results) : smryDisk[1].results[f] # <<>>) =>
        LET stream == Concat(smryDisk[1].results)
        IN IF MachineState(stream, "S0") = "S0"
           THEN /\ spc = "ready"
                /\ Len(timeStepList) = Len(SelectSeq(stream, LAMBDA a : a = "PARAMS"))
           ELSE spc = "failed"

\* The report steps of its run that lie before time step n.
ReportStepsBefore(n) ==
    Cardinality({m \in 1..(n - 1) : timeStepList[m][1] = timeStepList[n][1] /\ IsReportStep(m)})

\* C20: of a run that has a child run, no time step that lies after the
\* report step whose number is the child's restart step (DIMENS[5] of the
\* child) is in timeStepList or miniStepList, for every restart step >= 0.
Cex_C20_RestartCutOff ==
    spc = "ready" =>
        \A n \in 1..Len(timeStepList) :
            LET specInd == timeStepList[n][1]
            IN specInd >= 1 =>
                  /\ ReportStepsBefore(n) < smryDisk[specInd].rstep
                  /\ miniStepList[n][1] = specInd


-----------------------------------------------------------------------------
(* ESmry::ESmry, the RESTART chain step by step (lines 804-1055)           *)
(*                                                                         *)
(* The constructor opens the SMSPEC file it is given, then opens, in the   *)
(* while loop of line 943, the file that RESTART of the last opened file   *)
(* names, as long as that name is not empty and loadBaseRunData is set.    *)
(* smspecDir is the directory: the root names that have an SMSPEC (or      *)
(* FSMSPEC) file, each with the root name its RESTART record holds.  The   *)
(* loop keeps every opened EclFile in smspecList; MaxOpened is the number  *)
(* of files the process can hold before its resources run out.            *)

MaxOpened == 4

\* The directories: any set of the root names, each file naming any root
\* (itself included) or none in RESTART.
SmspecDirs ==
    UNION {[D -> Range(RootNames) \cup {""}] : D \in SUBSET Range(RootNames)}

\* Lines 804-941: the file named by the argument is opened and read.
OpenSmspec ==
    /\ cpc = "new"
    /\ IF RootNames[1] \in DOMAIN smspecDir
       THEN /\ cpc' = "chain"
            /\ smspecList' = <<RootNames[1]>>
            /\ rstRootName' = smspecDir[RootNames[1]]
       ELSE /\ cpc' = "failed"
            /\ UNCHANGED <<smspecList, rstRootName>>
    /\ UNCHANGED <<chainRest, smspecDir>>

\* Lines 943-1052: one pass of the while loop.  EclFile throws when the
\* file is neither there as SMSPEC nor as FSMSPEC.
OpenRestartSmspec ==
    /\ cpc = "chain"
    /\ rstRootName # "" /\ loadBaseRunData
    /\ Len(smspecList) < MaxOpened
    /\ IF rstRootName \in DOMAIN smspecDir
       THEN /\ smspecList' = Append(smspecList, rstRootName)
            /\ rstRootName' = smspecDir[rstRootName]
            /\ cpc' = "chain"
       ELSE /\ cpc' = "failed"
            /\ UNCHANGED <<smspecList, rstRootName>>
    /\ UNCHANGED <<chainRest, smspecDir>>

\* Line 943, the loop condition false: on to line 1055.
ChainEnd ==
    /\ cpc = "chain"
    /\ ~(rstRootName # "" /\ loadBaseRunData)
    /\ cpc' = "scan"
    /\ UNCHANGED <<chainRest, smspecDir, smspecList, rstRootName>>

InitChain ==
    /\ GridIdle
    /\ nI = 0 /\ nJ = 0
    /\ klast = [args |-> <<>>, ret |-> KeyOk(EmptyStr)]
    /\ SmryNew
    /\ loadBaseRunData \in BOOLEAN
    /\ smspecDir \in SmspecDirs
    /\ cpc = "new"
    /\ smspecList = <<>>
    /\ rstRootName = ""
    /\ SelIdle
    /\ LgrIdle
    /\ GeomIdle

NextChain ==
    \/ OpenSmspec
    \/ OpenRestartSmspec
    \/ ChainEnd

SpecChain == InitChain /\ [][NextChain]_vars

\* C21: the constructor never opens an SMSPEC file that it has already
\* opened in the same chain: when RESTART leads back to an opened file
\* (a cycle, a file naming itself included) construction fails instead.
Cex_C21_ChainCycle ==
    \A a \in DOMAIN smspecList : \A b \in DOMAIN smspecList :
        a # b => smspecList[a] # smspecList[b]


-----------------------------------------------------------------------------
(* ESmry::ESmry, the result files of one run (lines 1169-1202) and         *)
(* ESmry::checkForMultipleResultFiles (lines 1790-1812)                    *)
(*                                                                         *)
(* The run is the unformatted run CASE.  resultDir is its directory: the   *)
(* names of the files in it, each with its last write time.  File names    *)
(* are strings of the model, so that find, extension and the sort act on   *)
(* their characters.                                                       *)

MaxMtime == 3       \* last write times are in 1..MaxMtime

RootCASE == <<"C", "A", "S", "E">>
ExtUNSMRY == <<".", "U", "N", "S", "M", "R", "Y">>
File_CASE_UNSMRY == RootCASE \o ExtUNSMRY
File_CASE_S0001 == RootCASE \o <<".", "S", "0", "0", "0", "1">>
File_CASE_S0002 == RootCASE \o <<".", "S", "0", "0", "0", "2">>
File_XCASE_S0001 == <<"X">> \o RootCASE \o <<".", "S", "0", "0", "0", "1">>
File_CASE_SMSPEC == RootCASE \o <<".", "S", "M", "S", "P", "E", "C">>

ResultFileNames == {File_CASE_UNSMRY, File_CASE_S0001, File_CASE_S0002, File_XCASE_S0001}

\* The directories: CASE.SMSPEC and any of the other files, with any times.
ResultDirs ==
    UNION {{[n \in D \cup {File_CASE_SMSPEC} |-> IF n \in D THEN t[n] ELSE 1]
            : t \in [D -> 1..MaxMtime]}
           : D \in SUBSET ResultFileNames}

\* file.find(filter) != std::string::npos
StrFind(file, filter) ==
    \E p \in 0..(Len(file) - Len(filter)) : SubSeq(file, p + 1, p + Len(filter)) = filter

\* std::filesystem::path::extension of a file name: from its last dot
PathExtension(file) ==
    LET dots == {p \in 2..Len(file) : file[p] = "."}
    IN IF dots = {} THEN EmptyStr
       ELSE SubSeq(file, CHOOSE p \in dots : \A q \in dots : q <= p, Len(file))

\* Opm::EclIO::is_number: every character is a digit
is_number(numstr) == \A p \in 1..Len(numstr) : IsDigitChar(numstr[p])

\* checkForMultipleResultFiles(rootN, false): the names of the directory
\* that hold rootN.stem() + ".S" and have a number after the second
\* character of their extension, sorted by std::sort.
checkForMultipleResultFiles(dir, rootN) ==
    StdSetIterate({file \in DOMAIN dir :
                     /\ StrFind(file, rootN \o <<".", "S">>)
                     /\ is_number(Substr(PathExtension(file), 2, Len(file)))})

\* Lines 1177-1202: resultsFileList, or the throw of line 1187.
SelectResults(dir, rootN) ==
    LET unsmryFile == rootN \o ExtUNSMRY
        use_unified == unsmryFile \in DOMAIN dir
        multFileList == checkForMultipleResultFiles(dir, rootN)
    IN IF ~use_unified /\ Len(multFileList) = 0
       THEN [ok |-> FALSE, files |-> <<>>]
       ELSE IF use_unified /\ Len(multFileList) > 0
       THEN IF dir[multFileList[Len(multFileList)]] > dir[unsmryFile]
            THEN [ok |-> TRUE, files |-> multFileList]
            ELSE [ok |-> TRUE, files |-> <<unsmryFile>>]
       ELSE IF use_unified
       THEN [ok |-> TRUE, files |-> <<unsmryFile>>]
       ELSE [ok |-> TRUE, files |-> multFileList]

\* The pass of the constructor's loop over the run CASE, up to line 1202.
SelectResultFiles ==
    /\ rpc = "new"
    /\ LET r == SelectResults(resultDir, RootCASE)
       IN /\ rpc' = IF r.ok THEN "selected" ELSE "failed"
          /\ resultsFileList' = r.files
    /\ UNCHANGED <<selRest, resultDir>>

InitSel ==
    /\ GridIdle
    /\ nI = 0 /\ nJ = 0
    /\ klast = [args |-> <<>>, ret |-> KeyOk(EmptyStr)]
    /\ SmryIdle
    /\ ChainIdle
    /\ LgrIdle
    /\ GeomIdle
    /\ resultDir \in ResultDirs
    /\ rpc = "new"
    /\ resultsFileList = <<>>

NextSel == SelectResultFiles

SpecSel == InitSel /\ [][NextSel]_vars

\* The numbered files of the run CASE: CASE.S followed by a number.
NumberedSiblings ==
    {file \in DOMAIN resultDir :
        /\ Len(file) > Len(RootCASE) + 2
        /\ SubSeq(file, 1, Len(RootCASE) + 2) = RootCASE \o <<".", "S">>
        /\ \A p \in (Len(RootCASE) + 3)..Len(file) : IsDigitChar(file[p])}

\* C22: after the selection for a run, the unified file is the one result
\* file when it exists and is newer than every numbered sibling; the
\* numbered files in lexical order are the result files when there is no
\* unified file or when some numbered sibling is newer than the unified
\* file; and the constructor failed when neither kind of file exists.
Cex_C22_ResultFileSelection ==
    rpc # "new" =>
        LET unified == File_CASE_UNSMRY \in DOMAIN resultDir
            numbered == StdSetIterate(NumberedSiblings)
        IN /\ (unified /\ \A n \in NumberedSiblings :
                              resultDir[File_CASE_UNSMRY] > resultDir[n])
                  => rpc = "selected" /\ resultsFileList = <<File_CASE_UNSMRY>>
           /\ (NumberedSiblings # {}
               /\ (~unified \/ \E n \in NumberedSiblings :
                                    resultDir[n] > resultDir[File_CASE_UNSMRY]))
                  => rpc = "selected" /\ resultsFileList = numbered
           /\ (~unified /\ NumberedSiblings = {}) => rpc = "failed"


-----------------------------------------------------------------------------
(* The vector cache (ESmry::get, ESmry::loadData)                          *)

\* C23: a vector that is loaded is left as it is by every later get,
\* loadData(vectList) and loadData(): nothing is appended to it and none of
\* its values is replaced, whatever the keys of the call are.
C23_Step ==
    \A o \in DOMAIN vectorLoaded :
        vectorLoaded[o] => o \in DOMAIN vectorData' /\ vectorData'[o] = vectorData[o]

Thm_C23_LoadedVectorKept == [][C23_Step]_vars

\* A vector with a NaN was loaded by key (loadData() appends no NaN), and a
\* later loadData() or loadData(vectList) naming it has run.
Wit_C23_LoadedVectorKept ==
    /\ spc = "ready"
    /\ \E o \in DOMAIN vectorData :
          /\ vectorLoaded[o]
          /\ \E n \in DOMAIN vectorData[o] : vectorData[o][n] = NaN
          /\ \/ slast.op = "loadData()"
             \/ /\ slast.op = "loadData(vectList)" /\ slast.ok
                /\ \A v \in DOMAIN vectorLoaded : v # o => ~vectorLoaded[v]
                /\ slast.names = <<keyword[o]>>


\* C24: on an object with at least one time step, after any calls of get,
\* loadData(vectList) and loadData(), a loaded vector holds exactly nTstep
\* samples and a vector that is not loaded is empty.
Cex_C24_LoadedVectorLength ==
    (spc = "ready" /\ Len(timeStepList) >= 1) =>
        \A o \in DOMAIN vectorLoaded :
            IF vectorLoaded[o] THEN Len(vectorData[o]) = Len(timeStepList)
            ELSE vectorData[o] = <<>>


-----------------------------------------------------------------------------
(* The time steps found by the constructor (lines 1156-1277)               *)

\* C25: timeStepList and miniStepList of a constructed object have the
\* same length; entry n of both carries the same spec file index and the
\* same data file index, and the MINISTEP position of entry n is smaller
\* than its PARAMS position; along the lists the spec file index never
\* grows, the data file index never shrinks, and within one data file the
\* PARAMS positions grow strictly.
Cex_C25_ParallelStepLists ==
    spc = "ready" =>
        /\ Len(timeStepList) = Len(miniStepList)
        /\ \A n \in DOMAIN timeStepList :
              /\ miniStepList[n][1] = timeStepList[n][1]
              /\ miniStepList[n][2] = timeStepList[n][2]
              /\ miniStepList[n][3] < timeStepList[n][3]
        /\ \A n \in DOMAIN timeStepList : \A k \in DOMAIN timeStepList :
              n < k =>
                 /\ timeStepList[n][1] >= timeStepList[k][1]
                 /\ timeStepList[n][2] <= timeStepList[k][2]
                 /\ timeStepList[n][2] = timeStepList[k][2]
                       => timeStepList[n][3] < timeStepList[k][3]


-----------------------------------------------------------------------------
(* EGrid::EGrid, the scan of the records (lines 41-144)                    *)
(*                                                                         *)
(* egridRecords is the directory of the EGRID file.  A record is           *)
(* [name, lgr, num]: lgr is the LGR name an LGR record holds and num is    *)
(* nnchead[1] of an NNCHEAD record.  The GRIDHEAD record at directory      *)
(* index n holds the dimensions GridheadOf(n), so that every GRIDHEAD of   *)
(* a file differs from every other.  The rest of the constructor           *)
(* (lines 146-192), which reads the arrays found here, is EGridCtor.       *)

MaxArrays == 3      \* records of an EGRID file whose records are arbitrary

IndexArrays == {"COORD", "ZCORN", "ACTNUM", "NNC1", "NNC2", "COORDSYS", "HOSTNUM"}

Rec(name) == [name |-> name, lgr |-> "", num |-> 0]
RecLGR(lgr) == [name |-> "LGR", lgr |-> lgr, num |-> 0]
RecNNCHEAD(num) == [name |-> "NNCHEAD", lgr |-> "", num |-> num]

EgridRecordKinds ==
    {Rec(a) : a \in IndexArrays \cup {"GRIDHEAD", "ENDLGR"}}
    \cup {RecLGR("LGR1"), RecLGR("LGR2")}
    \cup {RecNNCHEAD(k) : k \in 0..2}

\* gridhead[1], gridhead[2], gridhead[3] of the GRIDHEAD record at index n
GridheadOf(n) == <<n + 1, 1, 1>>

\* A file of a global grid with two LGRs, with the NNCs of the global grid
\* and of each LGR.
EgridTwoLgrs ==
    <<Rec("GRIDHEAD"), Rec("COORD"), Rec("COORDSYS"), Rec("ZCORN"), Rec("ACTNUM"),
      RecNNCHEAD(0), Rec("NNC1"), Rec("NNC2"),
      RecLGR("LGR1"), Rec("GRIDHEAD"), Rec("COORD"), Rec("ZCORN"), Rec("ACTNUM"),
      Rec("HOSTNUM"), Rec("ENDLGR"),
      RecLGR("LGR2"), Rec("GRIDHEAD"), Rec("COORD"), Rec("COORDSYS"), Rec("ZCORN"),
      Rec("HOSTNUM"), Rec("ENDLGR"),
      RecNNCHEAD(1), Rec("NNC1"), Rec("NNC2"),
      RecNNCHEAD(2), Rec("NNC1"), Rec("NNC2"),
      Rec("ACTNUM")>>

EgridRecordLists ==
    UNION {[1..n -> EgridRecordKinds] : n \in 0..MaxArrays} \cup {EgridTwoLgrs}

\* What lgr_names[nnchead[1] - 1] can be when it is read past the end of
\* lgr_names: any string, the requested name and "global" among them.
IndeterminateNames == {"global", "LGR1", "LGR2", "?"}
Crashed == "crashed"

NextLgrname_ignoring_ENDLGR(rec, lgrname, names) ==
    IF rec.name = "LGR" THEN {rec.lgr}
    ELSE IF rec.name = "NNCHEAD"
    THEN IF rec.num = 0 THEN {"global"}
         ELSE IF rec.num - 1 < Len(names) THEN {At(names, rec.num - 1)}
         ELSE IndeterminateNames \cup {Crashed}
    ELSE {lgrname}

\* lgrname after lines 66-82 for the record rec, names being lgr_names
\* with the name of rec already pushed: the values it can have, Crashed
\* for a read past the end of lgr_names that stops the process.
NextLgrname(rec, lgrname, names) ==
    IF rec.name = "ENDLGR" THEN {"global"}
    ELSE IF rec.name = "LGR" THEN {rec.lgr}
    ELSE IF rec.name = "NNCHEAD"
    THEN IF rec.num = 0 THEN {"global"}
         ELSE IF rec.num - 1 < Len(names) THEN {At(names, rec.num - 1)}
         ELSE IndeterminateNames \cup {Crashed}
    ELSE {lgrname}

\* Lines 106-142 for the record at index n, under the context lgrname.
RecordUnderContext(rec, n, lgrname, grid_name, st) ==
    [st EXCEPT
       !.lgrname = lgrname,
       !.nijk = IF lgrname = grid_name /\ rec.name = "GRIDHEAD" THEN GridheadOf(n) ELSE @,
       !.array_index = IF lgrname = grid_name /\ rec.name \in IndexArrays
                       THEN [@ EXCEPT ![rec.name] = n] ELSE @,
       !.host_nijk = IF lgrname = "global" /\ rec.name = "GRIDHEAD"
                     THEN GridheadOf(n) ELSE @]

\* The loop over array_name from index n on (lines 64-144): the states it
\* can end in.  st is [lgrname, lgr_names, array_index, nijk, host_nijk, ok].
RECURSIVE ScanRecords(_, _, _, _)
ScanRecords(recs, n, grid_name, st) ==
    IF n >= Len(recs) THEN {st}
    ELSE LET rec == At(recs, n)
             names == IF rec.name = "LGR" THEN Append(st.lgr_names, rec.lgr)
                      ELSE st.lgr_names
             st2 == [st EXCEPT !.lgr_names = names]
         IN UNION {IF c = Crashed THEN {[st2 EXCEPT !.ok = FALSE]}
                   ELSE ScanRecords(recs, n + 1, grid_name,
                                    RecordUnderContext(rec, n, c, grid_name, st2))
                   : c \in NextLgrname(rec, st.lgrname, names)}

\* The constructor up to line 144.  The members it assigns before the loop
\* are -1 (lines 51-62); coord_array_index, zcorn_array_index, nijk and
\* host_nijk keep what they held unless a record sets them.
EGridScanRecords ==
    /\ gpc = "new"
    /\ \E out \in ScanRecords(egridRecords, 0, m_grid_name,
                    [lgrname |-> "global", lgr_names |-> <<>>,
                     array_index |-> [a \in IndexArrays |->
                                        IF a \in {"COORD", "ZCORN"} THEN array_index[a]
                                        ELSE -1],
                     nijk |-> nijk, host_nijk |-> host_nijk, ok |-> TRUE]) :
          /\ gpc' = IF out.ok THEN "ready" ELSE Crashed
          /\ lgr_names' = out.lgr_names
          /\ array_index' = out.array_index
          /\ nijk' = out.nijk
          /\ host_nijk' = out.host_nijk
    /\ UNCHANGED <<egridFile, act_index, glob_index, nactive, glast, nncVars, keyVars,
                   smryVars, chainVars, selVars, geomVars, egridRecords, m_grid_name>>

\* What coord_array_index and zcorn_array_index hold before the constructor
\* runs: no index of a record, or a number past the last record.
IndeterminateIndex == {-1, MaxArrays + Len(EgridTwoLgrs)}

InitLgr ==
    /\ GridIdle
    /\ nI = 0 /\ nJ = 0
    /\ klast = [args |-> <<>>, ret |-> KeyOk(EmptyStr)]
    /\ SmryIdle
    /\ ChainIdle
    /\ SelIdle
    /\ GeomIdle
    /\ egridRecords \in EgridRecordLists
    /\ m_grid_name \in {"global", "LGR1"}
    /\ lgr_names = <<>>
    /\ array_index \in [IndexArrays -> IndeterminateIndex]
    /\ \A a \in IndexArrays \ {"COORD", "ZCORN"} : array_index[a] = -1
    /\ host_nijk = <<0, 0, 0>>

NextLgr == EGridScanRecords

SpecLgr == InitLgr /\ [][NextLgr]_vars

\* The directory index of the num-th LGR record of the file.
NthLgrRecord(num) ==
    {k \in 0..(Len(egridRecords) - 1) :
        /\ At(egridRecords, k).name = "LGR"
        /\ Cardinality({j \in 0..k : At(egridRecords, j).name = "LGR"}) = num}

\* Every NNCHEAD record with nnchead[1] > 0 names an LGR met before it.
NncheadsNameLgrs ==
    \A m \in 0..(Len(egridRecords) - 1) :
        (At(egridRecords, m).name = "NNCHEAD" /\ At(egridRecords, m).num > 0)
            => \E k \in NthLgrRecord(At(egridRecords, m).num) : k < m

\* The active context at the record of index n: set by the last LGR, ENDLGR
\* or NNCHEAD record at or before n, "global" when there is none.
ActiveContext(n) ==
    LET switches == {m \in 0..n : At(egridRecords, m).name \in {"LGR", "ENDLGR", "NNCHEAD"}}
    IN IF switches = {} THEN "global"
       ELSE LET m == CHOOSE x \in switches : \A y \in switches : y <= x
                rec == At(egridRecords, m)
            IN IF rec.name = "ENDLGR" THEN "global"
               ELSE IF rec.name = "LGR" THEN rec.lgr
               ELSE IF rec.num = 0 THEN "global"
               ELSE At(egridRecords, CHOOSE k \in NthLgrRecord(rec.num) : TRUE).lgr

\* The records named a that are met while the active context is ctx.
RecordsMet(a, ctx) ==
    {n \in 0..(Len(egridRecords) - 1) :
        At(egridRecords, n).name = a /\ ActiveContext(n) = ctx}

\* C26: after construction the index kept for each of COORD, ZCORN,
\* ACTNUM, NNC1, NNC2, COORDSYS and HOSTNUM is the directory index of a
\* record of that name met while the active context was the requested grid
\* name, and no index of a record when no such record is met; nijk is
\* taken from a GRIDHEAD met in that context and host_nijk from a GRIDHEAD
\* met in the context "global"; the context is "global" at the start, the
\* LGR's name from an LGR record on, "global" from ENDLGR on, and from
\* NNCHEAD on "global" when nnchead[1] = 0 and lgr_names[nnchead[1]-1]
\* otherwise.
Thm_C26_RecordContext ==
    (gpc = "ready" /\ egridRecords # <<>> /\ NncheadsNameLgrs) =>
        /\ \A a \in IndexArrays :
              IF RecordsMet(a, m_grid_name) = {}
              THEN array_index[a] \notin 0..(Len(egridRecords) - 1)
              ELSE array_index[a] \in RecordsMet(a, m_grid_name)
        /\ IF RecordsMet("GRIDHEAD", m_grid_name) = {} THEN nijk = <<0, 0, 0>>
           ELSE \E n \in RecordsMet("GRIDHEAD", m_grid_name) : nijk = GridheadOf(n)
        /\ IF RecordsMet("GRIDHEAD", "global") = {} THEN host_nijk = <<0, 0, 0>>
           ELSE \E n \in RecordsMet("GRIDHEAD", "global") : host_nijk = GridheadOf(n)

\* The file with two LGRs read for LGR1: its records lie between LGR and
\* ENDLGR and after the NNCHEAD that names it, the last ACTNUM is global.
Wit_C26_RecordContext ==
    /\ gpc = "ready"
    /\ egridRecords = EgridTwoLgrs
    /\ m_grid_name = "LGR1"
    /\ array_index["COORD"] = 10
    /\ array_index["ACTNUM"] = 12
    /\ array_index["NNC1"] = 23
    /\ array_index["COORDSYS"] = -1
    /\ nijk = GridheadOf(9)
    /\ host_nijk = GridheadOf(0)


-----------------------------------------------------------------------------
(* EGrid, the grid geometry (lines 228-240, 364-645)                       *)
(*                                                                         *)
(* A float or double is an exact rational <<numerator, denominator>>: the  *)
(* arithmetic of the model does not round.  geomFile is the EGRID file:    *)
(* its GRIDHEAD (nijk, numres, radial), its COORDSYS record (the layers    *)
(* l1..l2 of each reservoir; empty when the file has none) and whether the *)
(* file is formatted.  COORD and ZCORN of the file are FileCoord and       *)
(* FileZcorn.  ACTNUM is 1 for every cell.                                 *)

Abs(n) == IF n < 0 THEN 0 - n ELSE n

RECURSIVE Gcd(_, _)
Gcd(a, b) == IF b = 0 THEN a ELSE Gcd(b, a % b)

Real(n) == <<n, 1>>
\* <<n, 0>> is not a number: the bits of the integer n read as a float.
RealOf(n, d) ==
    IF d = 0 THEN <<n, 0>>
    ELSE LET g == Gcd(Abs(n), Abs(d))
             sgn == IF d < 0 THEN -1 ELSE 1
         IN <<(sgn * n) \div g, (sgn * d) \div g>>
RealAdd(a, b) == RealOf(a[1] * b[2] + b[1] * a[2], a[2] * b[2])
RealSub(a, b) == RealOf(a[1] * b[2] - b[1] * a[2], a[2] * b[2])
RealMul(a, b) == RealOf(a[1] * b[1], a[2] * b[2])
RealDiv(a, b) == RealOf(a[1] * b[2], a[2] * b[1])

\* cos and sin of an angle in degrees; the angles of the files are
\* multiples of 90.
CosDeg(a) == Real(<<1, 0, -1, 0>>[((a[1] \div 90) % 4) + 1])
SinDeg(a) == Real(<<0, 1, 0, -1>>[((a[1] \div 90) % 4) + 1])

\* The six COORD values of the pillar at node (ii, jj) of reservoir r: top
\* x, y, z and bottom x, y, z (radius and angle in a radial grid).  Pillar
\* (0, 0) of reservoir 0 runs from (0, 0, 0) to (10, 0, 100); the pillars
\* with ii + jj odd have the same depth at both ends.
PillarOf(ii, jj, r) ==
    <<10 * ii + 7 * r, 90 * jj, r,
      10 * ii + 10 + 7 * r, 90 * jj, IF (ii + jj) % 2 = 1 THEN r ELSE 100>>

FileCoord(file) ==
    LET nx == file.nijk[1]
        ny == file.nijk[2]
    IN [p \in 1..(file.numres * (nx + 1) * (ny + 1) * 6) |->
          LET node == (p - 1) \div 6
          IN Real(PillarOf(node % (nx + 1), (node \div (nx + 1)) % (ny + 1),
                           node \div ((nx + 1) * (ny + 1)))[((p - 1) % 6) + 1])]

\* ZCORN: element n (0-based) is the depth 50 + n.
ZcornValue(n) == Real(50 + n)
FileZcorn(file) ==
    [p \in 1..(8 * file.nijk[1] * file.nijk[2] * file.nijk[3]) |-> ZcornValue(p - 1)]

\* res after the constructor (lines 146-157); the reservoirs are written
\* in increasing order, so a layer keeps the last reservoir that holds it.
ResOf(file) ==
    IF file.coordsys = <<>> THEN [l \in 0..(file.nijk[3] - 1) |-> 0]
    ELSE LET holds(r, l) == file.coordsys[r + 1][1] - 1 <= l /\ l < file.coordsys[r + 1][2]
             layers == UNION {(file.coordsys[r + 1][1] - 1)..(file.coordsys[r + 1][2] - 1) :
                                r \in 0..(file.numres - 1)}
         IN [l \in layers |->
               CHOOSE r \in 0..(file.numres - 1) :
                   holds(r, l) /\ \A q \in 0..(file.numres - 1) : holds(q, l) => q <= r]

\* The ends of the pillar whose COORD values start at index p (lines
\* 395-412): [xt, yt, zt, xb, yb, zb].
PillarEnds(ca, p, radial) ==
    IF radial
    THEN [xt |-> RealMul(At(ca, p), CosDeg(At(ca, p + 1))),
          yt |-> RealMul(At(ca, p), SinDeg(At(ca, p + 1))),
          zt |-> At(ca, p + 2),
          xb |-> RealMul(At(ca, p + 3), CosDeg(At(ca, p + 4))),
          yb |-> RealMul(At(ca, p + 3), SinDeg(At(ca, p + 4))),
          zb |-> At(ca, p + 5)]
    ELSE [xt |-> At(ca, p), yt |-> At(ca, p + 1), zt |-> At(ca, p + 2),
          xb |-> At(ca, p + 3), yb |-> At(ca, p + 4), zb |-> At(ca, p + 5)]

InterpolateOnPillar_from_bottom(pe, z) ==
    IF pe.zt = pe.zb THEN <<pe.xt, pe.yt>>
    ELSE <<RealAdd(pe.xt, RealMul(RealDiv(RealSub(pe.xb, pe.xt), RealSub(pe.zt, pe.zb)),
                                  RealSub(pe.zb, z))),
           RealAdd(pe.yt, RealMul(RealDiv(RealSub(pe.yb, pe.yt), RealSub(pe.zt, pe.zb)),
                                  RealSub(pe.zb, z)))>>

\* x and y at depth z on the pillar pe (lines 414-424)
InterpolateOnPillar(pe, z) ==
    IF pe.zt = pe.zb THEN <<pe.xt, pe.yt>>
    ELSE <<RealAdd(pe.xt, RealMul(RealDiv(RealSub(pe.xb, pe.xt), RealSub(pe.zt, pe.zb)),
                                  RealSub(pe.zt, z))),
           RealAdd(pe.yt, RealMul(RealDiv(RealSub(pe.yb, pe.yt), RealSub(pe.zt, pe.zb)),
                                  RealSub(pe.zt, z)))>>

\* pind and zind (lines 375-391) for the cell ijk, reservoir shift included
Pind(ijk, res_shift) ==
    LET p0 == res_shift + ijk[2] * (nijk[1] + 1) * 6 + ijk[1] * 6
    IN <<p0, p0 + 6, p0 + (nijk[1] + 1) * 6, p0 + (nijk[1] + 1) * 6 + 6>>

Zind(ijk) ==
    LET z0 == ijk[3] * nijk[1] * nijk[2] * 8 + ijk[2] * nijk[1] * 4 + ijk[1] * 2
        top == <<z0, z0 + 1, z0 + nijk[1] * 2, z0 + nijk[1] * 2 + 1>>
    IN top \o [n \in 1..4 |-> top[n] + nijk[1] * nijk[2] * 4]

\* Lines 375-424 of getCellCorners(ijk, X, Y, Z) with the eight depths Z
\* read: [ok, X, Y, Z]; res.at throws for a layer that res does not hold.
CornersAtDepths(ijk, ca, Z) ==
    IF ijk[3] \notin DOMAIN res
    THEN [ok |-> FALSE, X |-> <<>>, Y |-> <<>>, Z |-> <<>>]
    ELSE LET pind == Pind(ijk, res[ijk[3]] * (nijk[1] + 1) * (nijk[2] + 1) * 6)
             xy == [n \in 1..8 |->
                      InterpolateOnPillar(PillarEnds(ca, pind[((n - 1) % 4) + 1], m_radial),
                                          Z[n])]
         IN [ok |-> TRUE, X |-> [n \in 1..8 |-> xy[n][1]],
             Y |-> [n \in 1..8 |-> xy[n][2]], Z |-> Z]

\* getCellCorners(ijk, X, Y, Z) on loaded arrays ca and za (lines 364-428)
getCellCorners(ijk, ca, za) ==
    CornersAtDepths(ijk, ca, [n \in 1..8 |-> At(za, Zind(ijk)[n])])

\* The layers and boxes the calls are made with: the layers at both ends,
\* the ones next to the first block boundary of ZCORN and one on each side
\* of the valid range; the corner boxes, the whole layer and invalid boxes.
LayerArgs ==
    {l \in (-1)..nijk[3] :
        \/ l <= 1
        \/ l >= nijk[3] - 1
        \/ Abs(8 * nijk[1] * nijk[2] * l - 1000)
              <= 16 * nijk[1] * nijk[2]}
RangeArgs(n) == {<<0, 0>>, <<0, n - 1>>, <<n - 1, n - 1>>, <<0, n>>, <<n - 1, 0>>}
BoxArgs ==
    {<<a[1], a[2], b[1], b[2]>> : a \in RangeArgs(nijk[1]), b \in RangeArgs(nijk[2])}
CellArgs ==
    {0, nijk[1] - 1} \X {0, nijk[2] - 1} \X (LayerArgs \cap (0..(nijk[3] - 1)))

\* What zcorn_array[zind[n]] can be when zcorn_array is empty: the eight
\* floats read from memory the vector does not own.
IndeterminateZcorn == {[n \in 1..8 |-> Real(0)], [n \in 1..8 |-> Real(1000 + n)]}

\* getCellCorners(ijk, X, Y, Z).  load_grid_data runs only when coord_array
\* is empty (line 369): with coord_array loaded by getXYZ_layer and
\* zcorn_array still empty, line 393 reads an empty vector, and the call
\* crashes or goes on with indeterminate depths.
CallGetCellCorners ==
    /\ gpc = "ready"
    /\ \E ijk \in CellArgs :
          LET load == coord_array = <<>>
              ca == IF load THEN FileCoord(geomFile) ELSE coord_array
              za == IF load THEN FileZcorn(geomFile) ELSE zcorn_array
          IN /\ coord_array' = ca
             /\ zcorn_array' = za
             /\ IF za = <<>> /\ ijk[3] \in DOMAIN res
                THEN \E garbage \in IndeterminateZcorn \cup {<<>>} :
                        /\ gpc' = IF garbage = <<>> THEN Crashed ELSE gpc
                        /\ glast' =
                              [op |-> "getCellCorners", args |-> ijk, read |-> <<>>,
                               ret |-> IF garbage = <<>>
                                       THEN [ok |-> FALSE, X |-> <<>>, Y |-> <<>>, Z |-> <<>>]
                                       ELSE CornersAtDepths(ijk, ca, garbage)]
                ELSE /\ glast' = [op |-> "getCellCorners", args |-> ijk, read |-> <<>>,
                                  ret |-> getCellCorners(ijk, ca, za)]
                     /\ gpc' = gpc
    /\ UNCHANGED <<egridFile, nijk, act_index, glob_index, nactive, nncVars, keyVars,
                   smryVars, chainVars, selVars, lgrVars, geomFile, m_radial, res>>


MaxBlockSizeReal == 4000
sizeOfReal == 4
sizeOfInte == 4

\* The words of the file from the first byte after the header of ZCORN
\* (word 0 is the head flag of the first block): every block of up to
\* MaxBlockSizeReal / sizeOfReal floats sits between a head and a tail
\* integer holding its size in bytes; what follows the record is not ZCORN.
WordAt(w) ==
    LET perBlock == MaxBlockSizeReal \div sizeOfReal
        total == 8 * nijk[1] * nijk[2] * nijk[3]
        b == w \div (perBlock + 2)
        r == w % (perBlock + 2)
        size == IF total - perBlock * b < perBlock THEN total - perBlock * b ELSE perBlock
    IN IF perBlock * b >= total \/ r > size + 1 THEN [int |-> 0]
       ELSE IF r = 0 \/ r = size + 1 THEN [int |-> sizeOfReal * size]
       ELSE [float |-> ZcornValue(perBlock * b + r - 1)]

\* A word read as a float and as an int.  No read of the code reads a
\* float as an int: IntOfWord then stands for its bits.
FloatOfWord(word) == IF "float" \in DOMAIN word THEN word.float ELSE <<word.int, 0>>
IntOfWord(word) == IF "int" \in DOMAIN word THEN word.int ELSE word.float[1]

ReadFloatsAt(pos, n) == [q \in 1..n |-> FloatOfWord(WordAt(pos + q - 1))]

\* The loop of lines 572-593: pos is the file position in words.
RECURSIVE ZcornBlocks(_, _, _, _, _)
ZcornBlocks(pos, p1, next_block, zcorn_to, zcorn_layer) ==
    IF p1 >= zcorn_to THEN zcorn_layer
    ELSE LET p2 == p1 + next_block
             dtail == IntOfWord(WordAt(pos + next_block + 1))
             size == dtail \div sizeOfReal
         IN ZcornBlocks(pos + next_block + 2, p2,
                        IF p2 + size > zcorn_to THEN zcorn_to - p2 ELSE size,
                        zcorn_to, zcorn_layer \o ReadFloatsAt(pos, next_block))

get_zcorn_from_disk_one_block(layer, bottom) ==
    LET nodes_pr_surf == nijk[1] * nijk[2] * 4
        zcorn_offset == nodes_pr_surf * layer * 2 + (IF bottom THEN nodes_pr_surf ELSE 0)
        elements_pr_block == MaxBlockSizeReal \div sizeOfReal
    IN ReadFloatsAt(zcorn_offset + 1 + (zcorn_offset \div elements_pr_block) * 2,
                    nodes_pr_surf + 1)

\* get_zcorn_from_disk(layer, bottom) on an unformatted file (lines 521-597)
get_zcorn_from_disk(layer, bottom) ==
    LET nodes_pr_surf == nijk[1] * nijk[2] * 4
        zcorn_offset == nodes_pr_surf * layer * 2 + (IF bottom THEN nodes_pr_surf ELSE 0)
        elements_pr_block == MaxBlockSizeReal \div sizeOfReal
        num_blocks_start == zcorn_offset \div elements_pr_block
        start_pos == zcorn_offset + 1 + num_blocks_start * 2
        zcorn_to == zcorn_offset + nodes_pr_surf
        i1 == (zcorn_offset \div 1000) + 1
        elemets == i1 * elements_pr_block - zcorn_offset
        next_block == IF elemets < zcorn_to THEN elemets ELSE zcorn_to - zcorn_offset + 1
    IN ZcornBlocks(start_pos, zcorn_offset, next_block, zcorn_to, <<>>)

\* getCellCorners(ijk, zcorn_layer, X, Y, Z) for a cell of the layer (lines
\* 601-645): the four points <<x, y, z>>.
getCellCorners_layer(i, j, ca, zcorn_layer) ==
    LET pind == Pind(<<i, j, 0>>, 0)
        zind == Zind(<<i, j, 0>>)
    IN [n \in 1..4 |->
          LET Z == At(zcorn_layer, zind[n])
              xy == InterpolateOnPillar(PillarEnds(ca, pind[n], FALSE), Z)
          IN <<xy[1], xy[2], Z>>]

\* The cells of the box in the order of lines 483-484: j outer, i inner.
BoxCells(box) ==
    LET ni == box[2] - box[1] + 1
    IN [c \in 1..(ni * (box[4] - box[3] + 1)) |->
          <<box[1] + ((c - 1) % ni), box[3] + ((c - 1) \div ni)>>]

\* xyz_vector of lines 476-502
XyzVector(box, ca, zcorn_layer) ==
    LET cells == BoxCells(box)
    IN [q \in 1..(4 * Len(cells)) |->
          getCellCorners_layer(cells[((q - 1) \div 4) + 1][1], cells[((q - 1) \div 4) + 1][2],
                               ca, zcorn_layer)[((q - 1) % 4) + 1]]

XyzRet(v) == [ok |-> TRUE, val |-> v, err |-> ""]
XyzErr(m) == [ok |-> FALSE, val |-> <<>>, err |-> m]

\* getXYZ_layer(layer, box, bottom), lines 438-503.  glast.read is
\* layer_zcorn.
CallGetXYZ_layer ==
    /\ gpc = "ready"
    /\ \E layer \in LayerArgs, box \in BoxArgs, bottom \in BOOLEAN :
          LET nodes_pr_surf == nijk[1] * nijk[2] * 4
              zcorn_offset == nodes_pr_surf * layer * 2 + (IF bottom THEN nodes_pr_surf ELSE 0)
              ca == IF coord_array = <<>> THEN FileCoord(geomFile) ELSE coord_array
              layer_zcorn ==
                  IF zcorn_array # <<>>
                  THEN [n \in 1..nodes_pr_surf |-> At(zcorn_array, zcorn_offset + n - 1)]
                  ELSE get_zcorn_from_disk(layer, bottom)
              call(zc, ret) == [op |-> "getXYZ_layer", args |-> <<layer, box, bottom>>,
                                read |-> zc, ret |-> ret]
          IN IF layer < 0 \/ layer > nijk[3] - 1
             THEN /\ glast' = call(<<>>, XyzErr("invalid layer index"))
                  /\ coord_array' = coord_array
             ELSE IF \/ box[1] < 0 \/ box[1] + 1 > nijk[1] \/ box[2] < 0 \/ box[2] + 1 > nijk[1]
                     \/ box[3] < 0 \/ box[3] + 1 > nijk[2] \/ box[4] < 0 \/ box[4] + 1 > nijk[2]
                     \/ box[1] > box[2] \/ box[3] > box[4]
             THEN /\ glast' = call(<<>>, XyzErr("invalid box input"))
                  /\ coord_array' = coord_array
             ELSE /\ coord_array' = ca
                  /\ glast' = IF zcorn_array = <<>> /\ geomFile.formatted
                              THEN call(<<>>, XyzErr("partial loading of zcorn arrays not possible"))
                              ELSE call(layer_zcorn, XyzRet(XyzVector(box, ca, layer_zcorn)))
    /\ UNCHANGED <<egridFile, gpc, nijk, act_index, glob_index, nactive, nncVars, keyVars,
                   smryVars, chainVars, selVars, lgrVars, geomFile, zcorn_array, m_radial, res>>

\* The EGRID files: small grids, plain, radial or formatted; two
\* reservoirs; a COORDSYS that leaves the second layer out; and two
\* grids whose ZCORN is longer than one block, with a layer that starts at
\* the block boundary (element 1000) and one that lies across it.
GeomFile(dims, numres, coordsys, radial, formatted) ==
    [nijk |-> dims, numres |-> numres, coordsys |-> coordsys, radial |-> radial,
     formatted |-> formatted]
GeomFiles ==
    {GeomFile(<<1, 1, 1>>, 1, <<>>, r, f) : r \in BOOLEAN, f \in BOOLEAN}
    \cup {GeomFile(<<2, 2, 1>>, 1, <<>>, r, FALSE) : r \in BOOLEAN}
    \cup {GeomFile(<<2, 1, 2>>, 2, << <<1, 1>>, <<2, 2>> >>, FALSE, FALSE),
          GeomFile(<<2, 1, 2>>, 1, << <<1, 1>> >>, FALSE, FALSE),
          GeomFile(<<1, 1, 126>>, 1, <<>>, FALSE, FALSE),
          GeomFile(<<3, 1, 42>>, 1, <<>>, FALSE, FALSE)}

\* The EGrid after its constructor read geomFile (lines 41-200).
InitGeom ==
    /\ geomFile \in GeomFiles
    /\ egridFile = [nijk |-> geomFile.nijk, hasActnum |-> TRUE,
                    actnum |-> [n \in 1..(geomFile.nijk[1] * geomFile.nijk[2] * geomFile.nijk[3]) |-> 1]]
    /\ gpc = "ready"
    /\ nijk = geomFile.nijk
    /\ act_index = Iota(nijk[1] * nijk[2] * nijk[3])
    /\ glob_index = Iota(nijk[1] * nijk[2] * nijk[3])
    /\ nactive = nijk[1] * nijk[2] * nijk[3]
    /\ glast = [op |-> "none", args |-> <<>>, read |-> <<>>, ret |-> XyzRet(<<>>)]
    /\ NncIdle
    /\ nI = 0 /\ nJ = 0
    /\ klast = [args |-> <<>>, ret |-> KeyOk(EmptyStr)]
    /\ SmryIdle
    /\ ChainIdle
    /\ SelIdle
    /\ LgrIdle
    /\ coord_array = <<>>
    /\ zcorn_array = <<>>
    /\ m_radial = geomFile.radial
    /\ res = ResOf(geomFile)

NextGeom == CallGetCellCorners \/ CallGetXYZ_layer

SpecGeom == InitGeom /\ [][NextGeom]_vars


\* The ends of the pillar that carries corner n (0..7) of the cell ijk,
\* from the COORD values of the file: the pillar at node (i + n mod 2,
\* j + (n div 2) mod 2) of the reservoir of layer k, in Cartesian x and y.
CornerPillar(ijk, n) ==
    LET c == PillarOf(ijk[1] + (n % 2), ijk[2] + ((n \div 2) % 2), res[ijk[3]])
        x(radius, angle) == IF geomFile.radial THEN RealMul(Real(radius), CosDeg(Real(angle)))
                            ELSE Real(radius)
        y(radius, angle) == IF geomFile.radial THEN RealMul(Real(radius), SinDeg(Real(angle)))
                            ELSE Real(angle)
    IN [top |-> <<x(c[1], c[2]), y(c[1], c[2]), Real(c[3])>>,
        bot |-> <<x(c[4], c[5]), y(c[4], c[5]), Real(c[6])>>]

\* The point of the line through top and bot at depth z, coordinate c (1
\* for x, 2 for y).
OnPillarAt(top, bot, z, c) ==
    RealAdd(top[c], RealDiv(RealMul(RealSub(bot[c], top[c]), RealSub(top[3], z)),
                            RealSub(top[3], bot[3])))

\* C29: every corner that getCellCorners(ijk, X, Y, Z) returns lies on its
\* pillar at its depth Z[n]: x = x_top and y = y_top when the pillar has
\* z_top = z_bot (nothing is divided by zero), and otherwise
\* x = x_top + (x_bot - x_top) (z_top - z) / (z_top - z_bot), the same for
\* y; on the pillar (0,0,0)-(10,0,100) the depth 50 gives x = 5, y = 0.
Thm_C29_PillarInterpolation ==
    (glast.op = "getCellCorners" /\ glast.ret.ok) =>
        \A n \in 0..7 :
            LET pl == CornerPillar(glast.args, n)
                z == At(glast.ret.Z, n)
                x == At(glast.ret.X, n)
                y == At(glast.ret.Y, n)
            IN /\ pl.top[3] = pl.bot[3] => x = pl.top[1] /\ y = pl.top[2]
               /\ pl.top[3] # pl.bot[3] =>
                     /\ x = OnPillarAt(pl.top, pl.bot, z, 1)
                     /\ y = OnPillarAt(pl.top, pl.bot, z, 2)
               /\ ( /\ pl.top = <<Real(0), Real(0), Real(0)>>
                    /\ pl.bot = <<Real(10), Real(0), Real(100)>>
                    /\ z = Real(50) ) => x = Real(5) /\ y = Real(0)

\* getCellCorners returned the corners of cell (0, 0, 0): corner 0 at depth
\* 50 on the pillar (0,0,0)-(10,0,100), corner 1 on a pillar with
\* z_top = z_bot.
Wit_C29_PillarInterpolation ==
    /\ glast.op = "getCellCorners"
    /\ glast.ret.ok
    /\ glast.args = <<0, 0, 0>>
    /\ CornerPillar(glast.args, 0) =
          [top |-> <<Real(0), Real(0), Real(0)>>, bot |-> <<Real(10), Real(0), Real(100)>>]
    /\ At(glast.ret.Z, 0) = Real(50)
    /\ At(glast.ret.X, 0) = Real(5)
    /\ CornerPillar(glast.args, 1).top[3] = CornerPillar(glast.args, 1).bot[3]
    /\ At(glast.ret.X, 1) = Real(10)


\* The arguments of the last getXYZ_layer call and what the claims say of
\* them: valid arguments, the offset of the layer surface in ZCORN and its
\* nx ny 4 depths.
XyzLayer == glast.args[1]
XyzBox == glast.args[2]
XyzBottom == glast.args[3]
SurfaceSize == 4 * geomFile.nijk[1] * geomFile.nijk[2]
SurfaceOffset == SurfaceSize * (2 * XyzLayer + (IF XyzBottom THEN 1 ELSE 0))
SurfaceDepths == [n \in 1..SurfaceSize |-> FileZcorn(geomFile)[SurfaceOffset + n]]
ValidLayerBox ==
    /\ XyzLayer \in 0..(geomFile.nijk[3] - 1)
    /\ XyzBox[1] \in 0..XyzBox[2]
    /\ XyzBox[2] \in 0..(geomFile.nijk[1] - 1)
    /\ XyzBox[3] \in 0..XyzBox[4]
    /\ XyzBox[4] \in 0..(geomFile.nijk[2] - 1)

\* C27: getXYZ_layer(layer, box, bottom) with valid arguments on an
\* unformatted file returns the points it computes from the ZCORN array in
\* memory, whether zcorn_array is cached or the layer is streamed from disk;
\* on a formatted file without cached ZCORN it fails.
Thm_C27_CachedOrStreamed ==
    (glast.op = "getXYZ_layer" /\ ValidLayerBox) =>
        IF geomFile.formatted /\ zcorn_array = <<>>
        THEN ~glast.ret.ok
        ELSE /\ glast.ret.ok
             /\ glast.ret.val = XyzVector(XyzBox, FileCoord(geomFile), SurfaceDepths)

\* A layer surface that lies across the boundary of the first block of
\* ZCORN was streamed from disk and its points were returned.
Wit_C27_CachedOrStreamed ==
    /\ glast.op = "getXYZ_layer"
    /\ glast.ret.ok
    /\ zcorn_array = <<>>
    /\ SurfaceOffset < 1000
    /\ SurfaceOffset + SurfaceSize > 1000
    /\ Len(glast.ret.val) = 4 * (XyzBox[2] - XyzBox[1] + 1) * (XyzBox[4] - XyzBox[3] + 1)

\* C28: get_zcorn_from_disk(layer, bottom) returns exactly the nx ny 4
\* values ZCORN[off .. off + nx ny 4), off = nx ny 4 (2 layer + bottom): no
\* more, no fewer, no head or tail integer of a block.
Cex_C28_ZcornFromDisk ==
    (glast.op = "getXYZ_layer" /\ glast.ret.ok /\ zcorn_array = <<>>) =>
        glast.read = SurfaceDepths

\* C30: the four points of getXYZ_layer(k, box, bottom) for a cell (i, j)
\* of the box are the corners 0..3 (4..7 with bottom) that getCellCorners
\* returns for the cell (i, j, k), in radial grids and in layers of a
\* reservoir r > 0 too.
Cex_C30_LayerPointsAreCorners ==
    (glast.op = "getXYZ_layer" /\ glast.ret.ok) =>
        \A c \in DOMAIN BoxCells(XyzBox) :
            LET cell == BoxCells(XyzBox)[c]
                corners == getCellCorners(<<cell[1], cell[2], XyzLayer>>,
                                          FileCoord(geomFile), FileZcorn(geomFile))
                shift == IF XyzBottom THEN 4 ELSE 0
            IN corners.ok =>
                  \A n \in 0..3 :
                      glast.ret.val[4 * (c - 1) + n + 1] =
                          <<At(corners.X, n + shift), At(corners.Y, n + shift),
                            At(corners.Z, n + shift)>>

=============================================================================
